---- MODULE Spec2Model ----
(***************************************************************************)
(* Scope / import-resolution engine of shelly (src/src/scope.rs).          *)
(*                                                                         *)
(* The project (the map `files` handed to scope::analyze) is drawn from a  *)
(* bounded universe in the initial predicate.  One call of `analyze` is    *)
(* then executed step by step: the recursion of `get_scope` is unfolded on *)
(* an explicit stack so that the ScopeWip cache (no entry / Current /      *)
(* Resolved) is visible while a computation is in flight.                  *)
(*                                                                         *)
(* Specifications (same steps, different families of projects):            *)
(*   Spec       all import graphs, colliding definitions                   *)
(*   SpecCycle  all import graphs, under weak fairness                     *)
(*   SpecUse    usages of defined, undefined, built-in, configured names   *)
(*   SpecDeep   one more file, acyclic graphs                              *)
(*   SpecOrder  a call in path order followed by a call in any order       *)
(*   SpecStrict strict-mode preprocessing and analysis around the scopes    *)
(*   SpecParse  Stage-1 parsing of one text into token trees               *)
(*   SpecGather the gathering of function definitions and usages           *)
(*   SpecSyntax parse_and_preprocess of one text, through both stages      *)
(*   SpecMunch  the Muncher over one text, peeked and consumed             *)
(*   SpecLines  Stage 1 and Stage 2 of texts of words, newlines and blocks *)
(***************************************************************************)
EXTENDS Integers, Sequences, FiniteSets, TLC

\* ------------------------------------------------------------------ bounds
MaxFiles   == 3      \* files in the analysed map
MaxImports == 3      \* import statements in the whole project
MaxDefs    == 2      \* definitions in the whole project
MaxUsages  == 2      \* usages in the whole project
MaxSource  == 4      \* chars of a parsed text, every text that short
MaxBody    == 4      \* chars of the body of a longer comment or string
MaxTokens  == 3      \* token trees of a stream the gathering walks through
MaxLexemes == 4      \* lexemes of a text that is parsed and preprocessed
MaxMunch   == 4      \* chars of a text the Muncher is followed through
MaxPeeks   == 2      \* peeks between two calls of next_char
MaxLine    == 5      \* chars of a text with newlines, through both stages

\* ------------------------------------------------------------------- paths
\* Canonical paths are ordered (keys of a BTreeMap); integers stand for them.
Paths == 1..MaxFiles

\* A path that exists on disk but is not a key of `files`: preprocessing
\* dropped the file (PreprocessOutput::SyntaxErrors / InvalidImports).
DroppedPaths == {0}

AllPaths == Paths \cup DroppedPaths

Min(S) == CHOOSE x \in S : \A y \in S : x <= y

\* ------------------------------------------------------------------- items
ItemKind == {"Function", "Class"}

function(name) == [name |-> name, kind |-> "Function"]

class(name) == [name |-> name, kind |-> "Class"]

\* Faulty variant: the kind test of is_class
is_function_Class(item) == item.kind = "Class"

is_function(item) == item.kind = "Function"

is_class(item) == item.kind = "Class"

\* UniCase::new: the case-folded spelling that UniCase compares by.
UniCase(name) ==
    CASE name = "Foo"      -> "foo"
      [] name = "FOO"      -> "foo"
      [] name = "Bar"      -> "bar"
      [] name = "New-Item" -> "new-item"
      [] name = "MyFunA"   -> "myfuna"
      [] name = "myFunA"   -> "myfuna"
      [] name = "MyFunB"   -> "myfunb"
      [] name = "Set-StrictMode"     -> "set-strictmode"
      [] name = "!EnablesStrictMode" -> "!enablesstrictmode"
      [] OTHER             -> name

\* Faulty variant: the item is keyed by its spelling as written
as_case_insensitive_Exact(item) == [name |-> item.name, kind |-> item.kind]

\* Item::as_case_insensitive
as_case_insensitive(item) == [name |-> UniCase(item.name), kind |-> item.kind]

\* builtins.txt / extras.txt, as a set of case-insensitive function items.
BUILTINS == { function(UniCase("New-Item")), function(UniCase("Set-StrictMode")) }

\* Config::from_config_file: the configured cmdlets as case-insensitive items.
from_config_file(cmdlets) == { function(UniCase(c)) : c \in cmdlets }

\* --------------------------------------------------------- ordered maps
EmptyMap == [k \in {} |-> k]

\* Faulty variant: an insert that keeps the entry already stored under the key
insert_KeepOld(m, k, v) ==
    [x \in (DOMAIN m) \cup {k} |-> IF x \in DOMAIN m THEN m[x] ELSE v]

\* BTreeMap::insert
insert(m, k, v) == [x \in (DOMAIN m) \cup {k} |-> IF x = k THEN v ELSE m[x]]

\* Faulty variant: an extend that merges nothing
extend_Nothing(m, other) == m

\* BTreeMap::extend: every entry of `other` is inserted, replacing on collision
extend(m, other) ==
    [x \in (DOMAIN m) \cup (DOMAIN other) |-> IF x \in DOMAIN other THEN other[x] ELSE m[x]]

\* ----------------------------------------------------------------- Parsed
\* Parsed::functions_and_classes
functions_and_classes(parsed) ==
    SelectSeq(parsed.definitions, LAMBDA d : is_function(d) \/ is_class(d))

\* Parsed::is_import_bag
is_import_bag(parsed) ==
    functions_and_classes(parsed) = << >> /\ parsed.usages = << >>

\* ------------------------------------------------------------------ Scope
NewScope(file) == [items |-> EmptyMap, direct_imports |-> {}, current_file |-> file]

\* Faulty variant: the definition is stored under its case-folded spelling
DefinedItem_Folded(origin, item, span) ==
    [origin |-> origin, definition |-> [item |-> as_case_insensitive(item), span |-> span]]

\* struct DefinedItem
DefinedItem(origin, item, span) ==
    [origin |-> origin, definition |-> [item |-> item, span |-> span]]

NotFound == [found |-> "None"]

\* Faulty variant: every item found is reported as directly visible
search_AlwaysDirect(scope, item) ==
    LET key == as_case_insensitive(item) IN
    IF key \in DOMAIN scope.items
    THEN [found |-> "Direct", item |-> scope.items[key]]
    ELSE NotFound

\* Scope::search
search(scope, item) ==
    LET key == as_case_insensitive(item) IN
    IF key \in DOMAIN scope.items
    THEN LET defined == scope.items[key] IN
         IF defined.origin = scope.current_file \/ defined.origin \in scope.direct_imports
         THEN [found |-> "Direct", item |-> defined]
         ELSE [found |-> "Indirect", item |-> defined]
    ELSE NotFound

\* enum ScopeWip, plus the absence of a cache entry
Unvisited == [tag |-> "Unvisited"]

Current == [tag |-> "Current"]

Resolved(scope) == [tag |-> "Resolved", scope |-> scope]

\* -------------------------------------------------------------- variables
VARIABLES
    files,              \* Map<PathBuf, Parsed>: the analysed project
    custom_cmdlets,     \* Config.custom_cmdlets
    todo,               \* files the top-level loop of analyze has not visited
    pc,                 \* where analyze stands
    path,               \* the file of the current top-level iteration
    scope,              \* its Scope (the result of get_scope)
    stack,              \* frames of get_scope calls in flight
    scopes,             \* the cache: path -> ScopeWip
    ui,                 \* index of the next usage of `path`
    already_analyzed,   \* per-file set of analysed case-insensitive items
    used_dependencies,  \* per-file set of imports counted as used
    emitted,            \* what the emitter has received, in order
    result,             \* what analyze returned, once it has returned
    calls,              \* history: how often get_scope was called per file
    computed,           \* history: how often each file was marked Current
    first,              \* SpecOrder only: the outcome of the program's own run
    source,             \* Muncher.input: the text of the file being parsed
    pos,                \* Muncher.stream_location.byte: offset of the next char
    lpc,                \* where the Stage-1 parser stands
    lstack,             \* frames of parse_tts / parse_string calls in flight
    lresult,            \* what the parse returned, once it has returned
    comments,           \* history: the byte ranges skipped as comments, and
                        \* how many calls were in flight
    cstart,             \* history: where the comment being skipped started
    stream,             \* the Stage-2 stream syntax::parse walks through
    iter,               \* stream.iter(): index of its next token tree
    is_function_definition, \* the flag of the walk
    definitions,        \* the definitions syntax::parse has gathered
    usages,             \* the usages it has gathered
    tts2,               \* what v2::parse returned, once it has returned
    streams,            \* the streams traverse_streams has not finished
    syntax_file,        \* what syntax::parse returned, once it has returned
    output,             \* what parse_and_preprocess returned
    muncher,            \* struct Muncher
    minput,             \* what the Muncher was made of: the text, the chars
                        \* of its first line munched before, the build
    munched,            \* history: what next_char has returned, in order
    peeks,              \* history: what was peeked since the last next_char
    due,                \* history: what next_char would have returned then
    mpc                 \* where the user of the Muncher stands

\* the walk of syntax::parse through one stream
gathervars == << stream, iter, is_function_definition, definitions, usages >>

\* what the calls above Stage 1 return
filevars == << tts2, streams, syntax_file, output >>

\* the Muncher followed on its own
munchvars == << muncher, minput, munched, peeks, due, mpc >>

\* the state of the parser of one file
lexvars == << source, pos, lpc, lstack, lresult, comments, cstart,
              gathervars, filevars, munchvars >>

vars == << files, custom_cmdlets, todo, pc, path, scope, stack, scopes, ui,
           already_analyzed, used_dependencies, emitted, result, calls,
           computed, first, source, pos, lpc, lstack, lresult, comments,
           cstart, stream, iter, is_function_definition, definitions,
           usages, tts2, streams, syntax_file, output, muncher, minput,
           munched, peeks, due, mpc >>

\* Result of a parse that has not returned
Unparsed == [kind |-> "Unparsed", what |-> "-", where |-> 0, tts |-> << >>]

\* Result<File> of a syntax::parse that has not returned
NoFile ==
    [kind |-> "Unparsed", what |-> "-", where |-> 0, definitions |-> << >>,
     usages |-> << >>]

\* parse_and_preprocess has not returned
NoOutput == [kind |-> "None", definitions |-> << >>, usages |-> << >>]

\* Option::None of a char (with its Span)
NoChar == [tag |-> "None"]

\* no Muncher is followed on its own
MuncherIdle ==
    /\ muncher = NoChar
    /\ minput = NoChar
    /\ munched = << >>
    /\ peeks = << >>
    /\ due = NoChar
    /\ mpc = "idle"

\* syntax::parse walks through no stream
GatherIdle ==
    /\ MuncherIdle
    /\ stream = << >>
    /\ iter = 1
    /\ is_function_definition = FALSE
    /\ definitions = << >>
    /\ usages = << >>
    /\ tts2 = Unparsed
    /\ streams = << >>
    /\ syntax_file = NoFile
    /\ output = NoOutput

\* no file is being parsed: the state of the parser during the analysis
ParserIdle ==
    /\ source = << >>
    /\ pos = 0
    /\ lpc = "idle"
    /\ lstack = << >>
    /\ lresult = Unparsed
    /\ comments = << >>
    /\ cstart = 0
    /\ GatherIdle

\* Result<Map<&Path, Scope>, Error> of analyze
Running == [kind |-> "Running", error |-> "-", file |-> 0]

Ok == [kind |-> "Ok", error |-> "-", file |-> 0]

Err(error, file) == [kind |-> "Err", error |-> error, file |-> file]

NoOutcome == [kind |-> "None"]

\* ----------------------------------------------------- the input universe
Max(S) == CHOOSE x \in S : \A y \in S : y <= x

\* Faulty variant: the keys are walked in descending order
RECURSIVE SortedSeq_Descending(_)
SortedSeq_Descending(S) ==
    IF S = {} THEN << >> ELSE << Max(S) >> \o SortedSeq_Descending(S \ {Max(S)})

\* BTreeMap iteration: the keys in ascending order
RECURSIVE SortedSeq(_)
SortedSeq(S) == IF S = {} THEN << >> ELSE << Min(S) >> \o SortedSeq(S \ {Min(S)})

\* Import graphs: at most n import statements, drawn from the edges U
ImportGraphs(U, n) == { E \in SUBSET U : Cardinality(E) <= n }

\* At most n items placed into the files F, in source order
Placements(F, items, n) == UNION { [1..k -> F \X items] : k \in 0..n }

RECURSIVE ItemsOf(_, _)
ItemsOf(placed, p) ==
    IF placed = << >> THEN << >>
    ELSE IF Head(placed)[1] = p
         THEN << Head(placed)[2] >> \o ItemsOf(Tail(placed), p)
         ELSE ItemsOf(Tail(placed), p)

\* struct Parsed of every file (spans are the positions in the sequences)
Project(F, E, defs, uses) ==
    [p \in F |->
        [imports     |-> { e[2] : e \in { x \in E : x[1] = p } },
         definitions |-> ItemsOf(defs, p),
         usages      |-> ItemsOf(uses, p)]]

\* analyze: `let mut scopes = Map::new()`, nothing emitted yet
RunStart ==
    /\ pc = "loop"
    /\ path = 0
    /\ scope = NewScope(0)
    /\ stack = << >>
    /\ scopes = [p \in (DOMAIN files) \cup DroppedPaths |-> Unvisited]
    /\ ui = 1
    /\ already_analyzed = {}
    /\ used_dependencies = {}
    /\ emitted = << >>
    /\ result = Running
    /\ calls = [p \in (DOMAIN files) \cup DroppedPaths |-> 0]
    /\ computed = [p \in (DOMAIN files) \cup DroppedPaths |-> 0]
    /\ first = NoOutcome
    /\ ParserIdle

\* Usages of the given items, all in one file
UsagesInOneFile(F, items) == UNION { Placements({p}, items, MaxUsages) : p \in F }

\* Spec: every import graph over the files and the dropped path (cycles,
\* self-imports and imports of dropped files included), colliding
\* definitions, and usages of one name in one file.
DefItems == { function("foo"), function("Foo"), class("Foo") }

Init ==
    /\ \E E    \in ImportGraphs(Paths \X AllPaths, MaxImports),
          defs \in Placements(Paths, DefItems, MaxDefs),
          uses \in UsagesInOneFile(Paths, { function("Foo") }) :
            files = Project(Paths, E, defs, uses)
    /\ custom_cmdlets = from_config_file({})
    /\ todo = SortedSeq(DOMAIN files)
    /\ RunStart

\* SpecUse: import graphs among the analysed files, and one file with up to
\* MaxUsages usages of defined, undefined, built-in and configured names.
UseItems == { function("foo"), function("Foo"), class("foo"), function("New-Item") }

CmdletChoices == { {}, {"FOO"} }

InitUse ==
    /\ \E E    \in ImportGraphs({ e \in Paths \X Paths : e[1] # e[2] }, MaxImports),
          defs \in Placements(Paths, { function("Foo"), class("Foo") }, MaxDefs),
          uses \in UsagesInOneFile(Paths, UseItems) :
            files = Project(Paths, E, defs, uses)
    /\ custom_cmdlets \in { from_config_file(c) : c \in CmdletChoices }
    /\ todo = SortedSeq(DOMAIN files)
    /\ RunStart

\* SpecDeep: one file more, imports that point from a file to a later one
\* (so the graph is acyclic), and two spellings of one function name.
DeepPaths == 1..(MaxFiles + 1)

InitDeep ==
    /\ \E E    \in ImportGraphs({ e \in DeepPaths \X DeepPaths : e[1] < e[2] }, MaxImports),
          defs \in Placements(DeepPaths, { function("foo"), function("Foo") }, MaxDefs),
          uses \in UsagesInOneFile({Min(DeepPaths)}, { function("Foo") }) :
            files = Project(DeepPaths, E, defs, uses)
    /\ custom_cmdlets = from_config_file({})
    /\ todo = SortedSeq(DOMAIN files)
    /\ RunStart

\* SpecOrder: acyclic graphs over the files and the dropped path, with
\* definitions and usages of one function.
InitOrder ==
    /\ \E E    \in ImportGraphs({ e \in Paths \X AllPaths : e[1] < e[2] \/ e[2] \in DroppedPaths },
                                MaxImports),
          defs \in Placements(Paths, { function("Foo") }, MaxDefs),
          uses \in UsagesInOneFile(Paths, { function("Foo") }) :
            files = Project(Paths, E, defs, uses)
    /\ custom_cmdlets = from_config_file({})
    /\ todo = SortedSeq(DOMAIN files)
    /\ RunStart

\* SpecCycle: every import graph over the files and the dropped path, files
\* without definitions, usages of one name in one file.
InitCycle ==
    /\ \E E    \in ImportGraphs(Paths \X AllPaths, MaxImports),
          uses \in UsagesInOneFile(Paths, { function("Foo") }) :
            files = Project(Paths, E, << >>, uses)
    /\ custom_cmdlets = from_config_file({})
    /\ todo = SortedSeq(DOMAIN files)
    /\ RunStart

\* ------------------------------------------------------------- get_scope
Frame(file) ==
    [file    |-> file,
     scope   |-> NewScope(file),
     pending |-> IF file \in DOMAIN files THEN files[file].imports ELSE {}]

Top == stack[Len(stack)]

\* Faulty variant: a file whose scope is being computed is answered with an empty
\* Scope instead of the recursive-import error.
Entry_CurrentAsEmpty(file) ==
    IF scopes[file] = Current
    THEN [kind |-> "cached", marked |-> FALSE, scope |-> NewScope(file)]
    ELSE IF scopes[file].tag = "Resolved"
    THEN [kind |-> "cached", marked |-> FALSE, scope |-> scopes[file].scope]
    ELSE IF file \notin DOMAIN files
    THEN [kind |-> "unavailable", marked |-> TRUE, scope |-> NewScope(file)]
    ELSE [kind |-> "compute", marked |-> TRUE, scope |-> NewScope(file)]

\* Faulty variant: a Resolved cache entry is ignored and the scope computed again
Entry_NoCache(file) ==
    IF scopes[file] = Current
    THEN [kind |-> "recursive", marked |-> FALSE, scope |-> NewScope(file)]
    ELSE IF file \notin DOMAIN files
    THEN [kind |-> "unavailable", marked |-> TRUE, scope |-> NewScope(file)]
    ELSE [kind |-> "compute", marked |-> TRUE, scope |-> NewScope(file)]

\* get_scope, the head of a call: the cache lookup (a Current entry is a
\* recursive import, a Resolved one is returned as it is), the Current mark
\* and the lookup of the file in `files`
Entry(file) ==
    IF scopes[file] = Current
    THEN [kind |-> "recursive", marked |-> FALSE, scope |-> NewScope(file)]
    ELSE IF scopes[file].tag = "Resolved"
    THEN [kind |-> "cached", marked |-> FALSE, scope |-> scopes[file].scope]
    ELSE IF file \notin DOMAIN files
    THEN [kind |-> "unavailable", marked |-> TRUE, scope |-> NewScope(file)]
    ELSE [kind |-> "compute", marked |-> TRUE, scope |-> NewScope(file)]

\* Faulty variant: the file is not marked Current while its scope is computed
Mark_NoCurrent(file, e) ==
    /\ scopes' = scopes
    /\ computed' = IF e.marked THEN [computed EXCEPT ![file] = @ + 1] ELSE computed
    /\ calls' = [calls EXCEPT ![file] = @ + 1]

\* get_scope: `scopes.insert(file, ScopeWip::Current)`, with the history
Mark(file, e) ==
    /\ scopes' = IF e.marked THEN [scopes EXCEPT ![file] = Current] ELSE scopes
    /\ computed' = IF e.marked THEN [computed EXCEPT ![file] = @ + 1] ELSE computed
    /\ calls' = [calls EXCEPT ![file] = @ + 1]

\* get_scope, the tail of a call: the file's own definitions go in last
RECURSIVE InsertDefinitions(_, _, _, _)
InsertDefinitions(items, defs, file, i) ==
    IF i > Len(defs) THEN items
    ELSE InsertDefinitions(
            insert(items, as_case_insensitive(defs[i]),
                   DefinedItem(file, defs[i], i)),
            defs, file, i + 1)

\* Faulty variant: the used dependencies of the files analysed before are
\* carried over
EnterUsageLoop_KeepsUsed ==
    /\ ui' = 1
    /\ already_analyzed' = {}
    /\ used_dependencies' = used_dependencies

\* analyze: `let mut already_analyzed`, `let mut used_dependencies`
EnterUsageLoop ==
    /\ ui' = 1
    /\ already_analyzed' = {}
    /\ used_dependencies' = {}

Remove(seq, x) == SelectSeq(seq, LAMBDA y : y # x)

\* analyze: one turn of the loop over the files, up to the point where
\* get_scope(path) returns at once (cached or Err) or starts computing
AnalyzeFile(file) ==
    /\ UNCHANGED lexvars
    /\ pc = "loop"
    /\ LET e == Entry(file)
       IN  /\ path' = file
           /\ todo' = Remove(todo, file)
           /\ Mark(file, e)
           /\ CASE e.kind = "cached" ->
                    /\ pc' = "usages"
                    /\ scope' = e.scope
                    /\ EnterUsageLoop
                    /\ UNCHANGED << stack, result >>
                [] e.kind = "compute" ->
                    /\ pc' = "get_scope"
                    /\ stack' = << Frame(file) >>
                    /\ UNCHANGED << scope, ui, already_analyzed, used_dependencies, result >>
                [] e.kind = "unavailable" ->
                    /\ pc' = "failed"
                    /\ result' = Err("unavailable", file)
                    /\ stack' = << Frame(file) >>
                    /\ UNCHANGED << scope, ui, already_analyzed, used_dependencies >>
                [] OTHER ->
                    /\ pc' = "failed"
                    /\ result' = Err("recursive", file)
                    /\ UNCHANGED << stack, scope, ui, already_analyzed, used_dependencies >>
    /\ UNCHANGED << files, custom_cmdlets, emitted, first >>

\* analyze: `for (path, parsed) in files` visits the files in path order
AnalyzeNext ==
    /\ todo # << >>
    /\ AnalyzeFile(Head(todo))

\* get_scope: one turn of `for import in parsed_file.imports.keys()`, up to
\* the point where the nested call returns at once or starts computing
GetScopeImport ==
    /\ UNCHANGED lexvars
    /\ pc = "get_scope"
    /\ Top.pending # {}
    /\ LET import == Min(Top.pending)
           e      == Entry(import)
           caller == [Top EXCEPT !.scope.direct_imports = @ \cup {import},
                                 !.pending = @ \ {import}]
           below  == SubSeq(stack, 1, Len(stack) - 1)
       IN  /\ Mark(import, e)
           /\ CASE e.kind = "cached" ->
                    /\ stack' = below \o
                         << [caller EXCEPT !.scope.items = extend(@, e.scope.items)] >>
                    /\ UNCHANGED << pc, result >>
                [] e.kind = "compute" ->
                    /\ stack' = below \o << caller, Frame(import) >>
                    /\ UNCHANGED << pc, result >>
                [] e.kind = "unavailable" ->
                    /\ pc' = "failed"
                    /\ result' = Err("unavailable", import)
                    /\ stack' = below \o << caller, Frame(import) >>
                [] OTHER ->
                    /\ pc' = "failed"
                    /\ result' = Err("recursive", import)
                    /\ stack' = below \o << caller >>
    /\ UNCHANGED << files, custom_cmdlets, todo, path, scope, ui,
                    already_analyzed, used_dependencies, emitted, first >>

\* Faulty variant: the cache keeps the file's own definitions only, not the
\* items that came in through its imports
GetScopeReturn_CachesOwnDefinitions ==
    /\ UNCHANGED lexvars
    /\ pc = "get_scope"
    /\ Top.pending = {}
    /\ LET file == Top.file
           done == [Top.scope EXCEPT !.items =
                        InsertDefinitions(@, files[file].definitions, file, 1)]
           own  == [Top.scope EXCEPT !.items =
                        InsertDefinitions(EmptyMap, files[file].definitions, file, 1)]
       IN  /\ scopes' = [scopes EXCEPT ![file] = Resolved(own)]
           /\ IF Len(stack) = 1
              THEN /\ stack' = << >>
                   /\ scope' = done
                   /\ pc' = "usages"
                   /\ EnterUsageLoop
              ELSE /\ stack' = SubSeq(stack, 1, Len(stack) - 2) \o
                        << [stack[Len(stack) - 1] EXCEPT !.scope.items =
                                extend(@, done.items)] >>
                   /\ UNCHANGED << scope, pc, ui, already_analyzed, used_dependencies >>
    /\ UNCHANGED << files, custom_cmdlets, todo, path, emitted, result, calls,
                    computed, first >>

\* get_scope: the imports are merged; insert the own definitions, cache the
\* Scope as Resolved and return it to the caller
GetScopeReturn ==
    /\ UNCHANGED lexvars
    /\ pc = "get_scope"
    /\ Top.pending = {}
    /\ LET file == Top.file
           done == [Top.scope EXCEPT !.items =
                        InsertDefinitions(@, files[file].definitions, file, 1)]
       IN  /\ scopes' = [scopes EXCEPT ![file] = Resolved(done)]
           /\ IF Len(stack) = 1
              THEN /\ stack' = << >>
                   /\ scope' = done
                   /\ pc' = "usages"
                   /\ EnterUsageLoop
              ELSE /\ stack' = SubSeq(stack, 1, Len(stack) - 2) \o
                        << [stack[Len(stack) - 1] EXCEPT !.scope.items =
                                extend(@, done.items)] >>
                   /\ UNCHANGED << scope, pc, ui, already_analyzed, used_dependencies >>
    /\ UNCHANGED << files, custom_cmdlets, todo, path, emitted, result, calls,
                    computed, first >>

\* ---------------------------------------------------------------- analyze
\* What one `.lint(..)...emit(emitter)` hands to the emitter.  `at` is the
\* span: the index of the usage, or the imported path of the import.
Finding(lint, file, at, what, notes) ==
    [lint |-> lint, file |-> file, at |-> at, what |-> what, notes |-> notes]

NoWhat == "-"

\* get_cached_scope succeeds: the entry exists and is Resolved
Cached(file) == scopes[file].tag = "Resolved"

get_cached_scope(file) == scopes[file].scope

\* analyze: one turn of `for usage in &parsed.usages`
AnalyzeUsage ==
    /\ UNCHANGED lexvars
    /\ pc = "usages"
    /\ ui <= Len(files[path].usages)
    /\ LET parsed        == files[path]
           usage         == parsed.usages[ui]
           usage_unicase == as_case_insensitive(usage)
           search_result == search(scope, usage)
           imports       == SortedSeq(parsed.imports)
           imported_through ==
               SelectSeq(imports,
                   LAMBDA f : search(get_cached_scope(f), usage).found # "None")
           through_import_bags ==
               SelectSeq(imported_through, LAMBDA f : is_import_bag(files[f]))
           casing ==
               IF usage # search_result.item.definition.item
               THEN << Finding("InvalidLetterCasing", path, ui, NoWhat, << >>) >>
               ELSE << >>
       IN
       IF \/ usage_unicase \in BUILTINS
          \/ usage_unicase \in custom_cmdlets
          \/ usage_unicase \in already_analyzed
       THEN /\ ui' = ui + 1
            /\ UNCHANGED << pc, already_analyzed, used_dependencies, emitted >>
       ELSE
       /\ already_analyzed' = already_analyzed \cup {usage_unicase}
       /\ CASE search_result.found = "None" ->
                /\ emitted' = IF is_function(usage)
                              THEN Append(emitted,
                                     Finding("UnknownFunctions", path, ui, usage.name, << >>))
                              ELSE emitted
                /\ ui' = ui + 1
                /\ UNCHANGED << pc, used_dependencies >>
            [] search_result.found = "Direct" ->
                /\ used_dependencies' = used_dependencies \cup {search_result.item.origin}
                /\ emitted' = emitted \o casing
                /\ ui' = ui + 1
                /\ UNCHANGED pc
            [] OTHER ->
                IF \/ \E f \in parsed.imports : ~Cached(f)
                   \/ imported_through = << >>
                THEN \* get_cached_scope panics, or imported_through[0] does
                     /\ pc' = "panic"
                     /\ UNCHANGED << ui, used_dependencies, emitted >>
                ELSE /\ used_dependencies' = used_dependencies \cup
                            { IF through_import_bags = << >>
                              THEN imported_through[1]
                              ELSE through_import_bags[1],
                              search_result.item.origin }
                     /\ emitted' = emitted \o
                            ( IF through_import_bags = << >>
                              THEN << Finding("IndirectImports", path, ui, usage.name,
                                         << imported_through[1],
                                            search_result.item.origin >>) >>
                              ELSE << >> ) \o casing
                     /\ ui' = ui + 1
                     /\ UNCHANGED pc
    /\ UNCHANGED << files, custom_cmdlets, todo, path, scope, stack, scopes, result,
                    calls, computed, first >>

\* Faulty variant: imports of files without functions and classes are
\* reported too
UnusedImports_EmptyFilesToo(file) ==
    IF is_import_bag(files[file]) THEN << >>
    ELSE SelectSeq(SortedSeq(files[file].imports),
            LAMBDA f : f \notin used_dependencies)

\* Faulty variant: import bags are checked like any other file
UnusedImports_NoBagExemption(file) ==
    SelectSeq(SortedSeq(files[file].imports),
        LAMBDA f : /\ f \notin used_dependencies
                   /\ functions_and_classes(files[f]) # << >>)

\* Faulty variant: the imports that were used are the ones reported
UnusedImports_ReportsUsed(file) ==
    IF is_import_bag(files[file]) THEN << >>
    ELSE SelectSeq(SortedSeq(files[file].imports),
            LAMBDA f : /\ f \in used_dependencies
                       /\ functions_and_classes(files[f]) # << >>)

\* analyze: the unused-import check that ends a file's iteration
UnusedImports(file) ==
    IF is_import_bag(files[file]) THEN << >>
    ELSE SelectSeq(SortedSeq(files[file].imports),
            LAMBDA f : /\ f \notin used_dependencies
                       /\ functions_and_classes(files[f]) # << >>)

RECURSIVE UnusedFindings(_, _)
UnusedFindings(file, unused) ==
    IF unused = << >> THEN << >>
    ELSE << Finding("UnusedImports", file, Head(unused), NoWhat, << >>) >>
            \o UnusedFindings(file, Tail(unused))

CheckUnusedImports ==
    /\ UNCHANGED lexvars
    /\ pc = "usages"
    /\ ui > Len(files[path].usages)
    /\ emitted' = emitted \o UnusedFindings(path, UnusedImports(path))
    /\ pc' = "loop"
    /\ UNCHANGED << files, custom_cmdlets, todo, path, scope, stack, scopes, ui,
                    already_analyzed, used_dependencies, result, calls, computed,
                    first >>

\* analyze: after the loop, the cache is turned into the returned map
Finish ==
    /\ UNCHANGED lexvars
    /\ pc = "loop"
    /\ todo = << >>
    /\ IF \E f \in DOMAIN scopes : scopes[f] = Current
       THEN pc' = "panic" /\ UNCHANGED result
       ELSE pc' = "done" /\ result' = Ok
    /\ UNCHANGED << files, custom_cmdlets, todo, path, scope, stack, scopes, ui,
                    already_analyzed, used_dependencies, emitted, calls, computed,
                    first >>

Next ==
    \/ AnalyzeNext
    \/ GetScopeImport
    \/ GetScopeReturn
    \/ AnalyzeUsage
    \/ CheckUnusedImports
    \/ Finish

Spec == Init /\ [][Next]_vars

SpecUse == InitUse /\ [][Next]_vars

SpecDeep == InitDeep /\ [][Next]_vars

\* What a finished call leaves behind: the returned value (the map of the
\* scopes on success, the error otherwise) and the set of findings the
\* emitter received
Outcome ==
    [kind     |-> "Some",
     result   |-> result,
     scopes   |-> IF result = Ok THEN scopes ELSE EmptyMap,
     findings |-> { emitted[i] : i \in DOMAIN emitted }]

\* analyze is called a second time on the same project: the outcome of the
\* first call is kept and everything else starts afresh
AnalyzeAgain ==
    /\ UNCHANGED lexvars
    /\ pc \in {"done", "failed", "panic"}
    /\ first = NoOutcome
    /\ first' = Outcome
    /\ todo' = SortedSeq(DOMAIN files)
    /\ pc' = "loop"
    /\ path' = 0
    /\ scope' = NewScope(0)
    /\ stack' = << >>
    /\ scopes' = [p \in DOMAIN scopes |-> Unvisited]
    /\ ui' = 1
    /\ already_analyzed' = {}
    /\ used_dependencies' = {}
    /\ emitted' = << >>
    /\ result' = Running
    /\ calls' = [p \in DOMAIN calls |-> 0]
    /\ computed' = [p \in DOMAIN computed |-> 0]
    /\ UNCHANGED << files, custom_cmdlets >>

\* the loop over the files of the second call, taking the files in any order
AnalyzeInAnyOrder ==
    /\ first # NoOutcome
    /\ \E i \in DOMAIN todo : AnalyzeFile(todo[i])

\* the loop over the files of the first call: path order
AnalyzeInPathOrder ==
    /\ first = NoOutcome
    /\ AnalyzeNext

NextOrder ==
    \/ AnalyzeInPathOrder
    \/ AnalyzeInAnyOrder
    \/ AnalyzeAgain
    \/ GetScopeImport
    \/ GetScopeReturn
    \/ AnalyzeUsage
    \/ CheckUnusedImports
    \/ Finish

SpecOrder == InitOrder /\ [][NextOrder]_vars

\* The run under weak fairness: analyze is sequential code that keeps
\* running until it returns.
SpecCycle == InitCycle /\ [][Next]_vars /\ WF_vars(Next)

\* ------------------------------------------------------- strict mode
\* (src/src/strictness.rs)
STRICT_MODE_PSEUDOITEM_NAME == "!EnablesStrictMode"

\* Item::pseudo
pseudo(name) == [name |-> name, kind |-> "Pseudoitem"]

\* Faulty variant: the command name is compared ignoring case
preprocess_IgnoringCase(file) ==
    IF \E i \in DOMAIN file.usages :
            UniCase(file.usages[i].name) = UniCase("Set-StrictMode")
    THEN [file EXCEPT !.definitions = Append(@, pseudo(STRICT_MODE_PSEUDOITEM_NAME))]
    ELSE file

\* strictness::preprocess: the first usage named Set-StrictMode defines the
\* pseudoitem in the file
preprocess(file) ==
    IF \E i \in DOMAIN file.usages : file.usages[i].name = "Set-StrictMode"
    THEN [file EXCEPT !.definitions = Append(@, pseudo(STRICT_MODE_PSEUDOITEM_NAME))]
    ELSE file

\* Scope::all: the names in scope
all(sc) == { sc.items[k].definition.item.name : k \in DOMAIN sc.items }

\* strictness::analyze: every file some file imports
importees == UNION { files[f].imports : f \in DOMAIN files }

\* strictness::analyze: the keys of the map scope::analyze returned
all_files == { f \in DOMAIN scopes : scopes[f].tag = "Resolved" }

\* Faulty variant: every file counts as a root
root_files_Everything == all_files

root_files == all_files \ importees

RECURSIVE NoStrictModeFindings(_)
NoStrictModeFindings(roots) ==
    IF roots = << >> THEN << >>
    ELSE (IF STRICT_MODE_PSEUDOITEM_NAME \notin all(scopes[Head(roots)].scope)
          THEN << Finding("NoStrictMode", Head(roots), 0, NoWhat, << >>) >>
          ELSE << >>)
         \o NoStrictModeFindings(Tail(roots))

\* strictness::analyze, run on the scopes that scope::analyze returned
StrictnessAnalyze ==
    /\ UNCHANGED lexvars
    /\ pc = "done"
    /\ result = Ok
    /\ pc' = "strict"
    /\ emitted' = emitted \o NoStrictModeFindings(SortedSeq(root_files))
    /\ UNCHANGED << files, custom_cmdlets, todo, path, scope, stack, scopes, ui,
                    already_analyzed, used_dependencies, result, calls,
                    computed, first >>

\* SpecStrict: import graphs among the analysed files, whose usages call
\* Set-StrictMode in two spellings; the files are preprocessed, the scopes
\* are resolved and the strict-mode analysis runs on the result.
StrictItems == { function("Set-StrictMode"), function("set-strictmode") }

InitStrict ==
    /\ \E E    \in ImportGraphs({ e \in Paths \X Paths : e[1] # e[2] }, MaxImports),
          uses \in Placements(Paths, StrictItems, MaxUsages) :
            files = [p \in Paths |-> preprocess(Project(Paths, E, << >>, uses)[p])]
    /\ custom_cmdlets = from_config_file({})
    /\ todo = SortedSeq(DOMAIN files)
    /\ RunStart

NextStrict == Next \/ StrictnessAnalyze

SpecStrict == InitStrict /\ [][NextStrict]_vars

\* ------------------------------------------------- Stage 1: token trees
\* Parsing of one source text into token trees (src/src/syntax/v2/stage1.rs
\* over the character stream of muncher.rs).  Characters are one-character
\* strings (one is spelled by its name), a Location is the byte offset it holds, and the recursion of
\* parse_tts / parse_group / parse_string is unfolded on `lstack`.  The loops
\* that consume one character per iteration take one step per iteration.

\* Option<char>::None of peek_char / consume_char
EOF == ""

Openings == { "(", "{", "[" }

Closings == { ")", "}", "]" }

\* the chars with a role in strings; the grave accent U+0060 is spelled by
\* its name
Apostrophe == "'"

Quote == "\""

Backtick == "grave"

Quotes == { Apostrophe, Quote }

\* Delimiter::from_opening
from_opening(c) ==
    CASE c = "(" -> "Parenthesis"
      [] c = "{" -> "Brace"
      [] c = "[" -> "Bracket"

\* Delimiter::closing, had every group to be closed by a parenthesis
closing_Parenthesis(delimiter) == ")"

\* Delimiter::closing
closing(delimiter) ==
    CASE delimiter = "Parenthesis" -> ")"
      [] delimiter = "Brace"       -> "}"
      [] delimiter = "Bracket"     -> "]"

\* the letters, digits and blanks of the texts (char::is_alphabetic,
\* char::is_numeric, char::is_whitespace restricted to them)
Letters == { "a", "c", "f", "i", "n", "o", "t", "u" }

Digits == { "1" }

Blanks == { " " }

can_start_word(c) == c = "_" \/ c \in Letters

can_continue_word(c) == c = "_" \/ c \in Letters \/ c \in Digits

\* Muncher: the char at a byte offset, None behind the last one
CharAt(p) == IF p < Len(source) THEN source[p + 1] ELSE EOF

\* Muncher::peek_char
peek_char == CharAt(pos)

\* Muncher::peek_2nd_char
peek_2nd_char == CharAt(pos + 1)

\* Location.col of the char at a byte offset: 1 right behind a newline
ColIsOne(p) == p = 0 \/ source[p] = "\n"

\* TokenTree, all variants in one record shape
TokenTree(type, start, end) ==
    [type |-> type, start |-> start, end |-> end, spacing |-> "Alone",
     symbol |-> "-", subtrees |-> << >>, interior |-> << >>,
     delimiter |-> "-"]

\* where parse_word stops: behind the last char that continues the word
RECURSIVE WordEnd(_)
WordEnd(p) == IF can_continue_word(CharAt(p)) THEN WordEnd(p + 1) ELSE p

RECURSIVE NumberEnd(_)
NumberEnd(p) == IF CharAt(p) \in Digits THEN NumberEnd(p + 1) ELSE p

\* parse_word, called with the first char at `start`
parse_word(start) == TokenTree("Word", start, WordEnd(start + 1))

parse_number(start) == TokenTree("Number", start, NumberEnd(start))

parse_symbol(start) ==
    [TokenTree("Symbol", start, start + 1) EXCEPT !.symbol = CharAt(start)]

\* Faulty variant: a Word or Symbol is Joined whenever it has a right
\* neighbour, wherever that one starts
compute_spacing_AnyRightNeighbour(tts) ==
    [i \in DOMAIN tts |->
        IF /\ i < Len(tts)
           /\ tts[i].type \in {"Word", "Symbol"}
        THEN [tts[i] EXCEPT !.spacing = "Joined"]
        ELSE tts[i]]

\* compute_spacing: a Word or Symbol that ends where its right neighbour
\* starts is Joined
compute_spacing(tts) ==
    [i \in DOMAIN tts |->
        IF /\ i < Len(tts)
           /\ tts[i].type \in {"Word", "Symbol"}
           /\ tts[i].end = tts[i + 1].start
        THEN [tts[i] EXCEPT !.spacing = "Joined"]
        ELSE tts[i]]

\* Span::to, had it ended where the right span starts
to_LeftEnd(left, right) == [start |-> left.start, end |-> right.start]

\* Span::to: from the start of the left span to the end of the right one
to(left, right) == [start |-> left.start, end |-> right.end]

\* Result<TokenStream>
ParseOk(tts) == [kind |-> "Ok", what |-> "-", where |-> 0, tts |-> tts]

SyntaxError(what, where) ==
    [kind |-> "Err", what |-> what, where |-> where, tts |-> << >>]

\* a call in flight: parse_tts of the whole text ("top"), parse_tts of a
\* group, or the loop of parse_string; `tts` are the trees collected so far
\* (the subtrees of a string)
CallFrame(kind, start) ==
    [kind |-> kind, start |-> start, delimiter |-> "-", quotes |-> "-",
     hereness |-> "-", tts |-> << >>]

Call == lstack[Len(lstack)]

\* the callers of the call on top
Callers == SubSeq(lstack, 1, Len(lstack) - 1)

\* tts.push(tt) / subtrees.push(tt) in the call on top of `stk`
Pushed(stk, tt) == [stk EXCEPT ![Len(stk)].tts = Append(@, tt)]

\* the rest of the program: no analysis runs while a file is parsed
scopevars == << files, custom_cmdlets, todo, pc, path, scope, stack, scopes,
                ui, already_analyzed, used_dependencies, emitted, result,
                calls, computed, first, munchvars >>

\* the parse returns: Parser::parse returns Ok, or an error travels up
\* through every `?`
Returns(r) ==
    /\ lresult' = r
    /\ lpc' = "done"
    /\ lstack' = << >>

\* parse_tt has a token tree for the parse_tts that called it
Yields(tt) ==
    /\ lstack' = Pushed(lstack, tt)
    /\ pos' = tt.end
    /\ UNCHANGED << lpc, lresult, comments, cstart >>

\* one iteration of the loop of parse_tt on a char that does not end the
\* enclosing parse_tts
parse_tt ==
    /\ lpc = "parse_tt"
    /\ peek_char # EOF
    /\ peek_char \notin Closings
    /\ LET c == peek_char
       IN  CASE c \in Openings ->
                    \* parse_group consumes the opening and calls parse_tts
                    /\ lstack' = Append(lstack,
                                    [CallFrame("group", pos) EXCEPT
                                        !.delimiter = from_opening(c)])
                    /\ pos' = pos + 1
                    /\ UNCHANGED << lpc, lresult, comments, cstart >>
             [] c = "\n" -> Yields(parse_symbol(pos))
             [] c = "#" ->
                    /\ lpc' = "skip_to_newline"
                    /\ cstart' = pos
                    /\ UNCHANGED << pos, lstack, lresult, comments >>
             [] c = "@" ->
                    \* parse_at
                    IF peek_2nd_char \in Quotes
                    THEN /\ lstack' = Append(lstack,
                                        [CallFrame("string", pos) EXCEPT
                                            !.hereness = "HereString",
                                            !.quotes = IF peek_2nd_char = Apostrophe
                                                       THEN "Single"
                                                       ELSE "Double"])
                         /\ pos' = pos + 2
                         /\ lpc' = "parse_string"
                         /\ UNCHANGED << lresult, comments, cstart >>
                    ELSE Yields(parse_symbol(pos))
             [] c \in Quotes ->
                    /\ lstack' = Append(lstack,
                                    [CallFrame("string", pos) EXCEPT
                                        !.hereness = "Normal",
                                        !.quotes = IF c = Apostrophe THEN "Single"
                                                   ELSE "Double"])
                    /\ pos' = pos + 1
                    /\ lpc' = "parse_string"
                    /\ UNCHANGED << lresult, comments, cstart >>
             [] c = "<" ->
                    IF peek_2nd_char = "#"
                    THEN /\ pos' = pos + 2
                         /\ lpc' = "skip_long_comment"
                         /\ cstart' = pos
                         /\ UNCHANGED << lstack, lresult, comments >>
                    ELSE Yields(parse_symbol(pos))
             [] can_start_word(c) -> Yields(parse_word(pos))
             [] c \in Digits -> Yields(parse_number(pos))
             [] c \in Blanks ->
                    /\ pos' = pos + 1
                    /\ UNCHANGED << lpc, lstack, lresult, comments, cstart >>
             [] OTHER -> Yields(parse_symbol(pos))
    /\ UNCHANGED << source, scopevars, gathervars,
                    filevars >>

\* parse_group behind its call of parse_tts, which stopped at a closing
\* delimiter or at the end of the text
parse_group ==
    /\ lpc = "parse_tt"
    /\ Call.kind = "group"
    /\ (peek_char = EOF \/ peek_char \in Closings)
    /\ LET expected == closing(Call.delimiter)
           sp_start == [start |-> Call.start, end |-> Call.start + 1]
           sp_end   == [start |-> pos, end |-> pos + 1]
           span     == to(sp_start, sp_end)
           group    == [TokenTree("Group", span.start, span.end) EXCEPT
                           !.interior = compute_spacing(Call.tts),
                           !.delimiter = Call.delimiter]
       IN  IF peek_char = expected
           THEN /\ lstack' = Pushed(Callers, group)
                /\ pos' = pos + 1
                /\ lpc' = IF Callers[Len(Callers)].kind = "string"
                          THEN "parse_string" ELSE "parse_tt"
                /\ UNCHANGED lresult
           ELSE IF peek_char # EOF
           THEN /\ Returns(SyntaxError("Expected closing, but found another",
                                       pos))
                /\ pos' = pos + 1
           ELSE /\ Returns(SyntaxError(
                               "Expected closing, but found end of file", pos))
                /\ UNCHANGED pos
    /\ UNCHANGED << source, comments, cstart, scopevars, gathervars,
                    filevars >>

\* Parser::parse behind its call of parse_tts
Parser_parse ==
    /\ lpc = "parse_tt"
    /\ Call.kind = "top"
    /\ (peek_char = EOF \/ peek_char \in Closings)
    /\ IF peek_char = EOF
       THEN /\ Returns(ParseOk(compute_spacing(Call.tts)))
            /\ UNCHANGED pos
       ELSE /\ Returns(SyntaxError("Unexpected closing", pos))
            /\ pos' = pos + 1
    /\ UNCHANGED << source, comments, cstart, scopevars, gathervars,
                    filevars >>

\* the condition of skip_to_newline, had a blank ended the comment as well
EndsLineComment_AtBlank(c) == c = "\n" \/ c \in Blanks

\* the condition that ends the loop of skip_to_newline
EndsLineComment(c) == c = "\n"

\* one iteration of the loop of skip_to_newline.  consume_char at the end
\* of the text consumes nothing, so there the loop goes round without
\* changing anything: no step
skip_to_newline ==
    /\ lpc = "skip_to_newline"
    /\ peek_char # EOF
    /\ IF EndsLineComment(peek_char)
       THEN /\ lpc' = "parse_tt"
            /\ comments' = Append(comments, [kind |-> "line",
                                             start |-> cstart, end |-> pos,
                                             depth |-> Len(lstack)])
            /\ UNCHANGED pos
       ELSE /\ pos' = pos + 1
            /\ UNCHANGED << lpc, comments >>
    /\ UNCHANGED << source, lstack, lresult, cstart, scopevars, gathervars,
                    filevars >>

\* one iteration of the loop of skip_long_comment, or its end
skip_long_comment ==
    /\ lpc = "skip_long_comment"
    /\ IF peek_char = EOF
       THEN /\ Returns(SyntaxError("Unclosed long comment", pos))
            /\ UNCHANGED << pos, comments >>
       ELSE IF peek_char = "#" /\ peek_2nd_char = ">"
       THEN /\ pos' = pos + 2
            /\ lpc' = "parse_tt"
            /\ comments' = Append(comments, [kind |-> "long",
                                             start |-> cstart,
                                             end |-> pos + 2,
                                             depth |-> Len(lstack)])
            /\ UNCHANGED << lstack, lresult >>
       ELSE \* the char behind a '#' is consumed with it, whatever it is
            /\ pos' = IF peek_char = "#" /\ peek_2nd_char # EOF
                      THEN pos + 2 ELSE pos + 1
            /\ UNCHANGED << lpc, lstack, lresult, comments >>
    /\ UNCHANGED << source, cstart, scopevars, gathervars,
                    filevars >>

\* the string is complete: parse_string returns it to parse_tt
StringEnds(end) ==
    /\ lstack' = Pushed(Callers, [TokenTree("String", Call.start, end)
                                     EXCEPT !.subtrees = Call.tts])
    /\ pos' = end
    /\ lpc' = "parse_tt"
    /\ UNCHANGED lresult

\* the loop of parse_string goes on behind the consumed chars
StringGoesOn(next) ==
    /\ pos' = next
    /\ UNCHANGED << lpc, lstack, lresult >>

\* the first arm of the match of parse_string
Escapes(c, quotes, hereness) ==
    c = Backtick /\ quotes = "Double" /\ hereness = "Normal"

\* one iteration of the loop of parse_string
parse_string ==
    /\ lpc = "parse_string"
    /\ LET c        == peek_char
           next     == CharAt(pos + 1)
           quotes   == Call.quotes
           hereness == Call.hereness
           own      == c \in Quotes /\ (c = Apostrophe <=> quotes = "Single")
       IN  CASE c = EOF ->
                    /\ Returns(SyntaxError("Unclosed string", Call.start))
                    /\ UNCHANGED pos
             [] c # EOF /\ Escapes(c, quotes, hereness) ->
                    StringGoesOn(IF next = EOF THEN pos + 1 ELSE pos + 2)
             [] c # EOF /\ ~Escapes(c, quotes, hereness) /\ c \in Quotes
                  /\ ~own ->
                    StringGoesOn(pos + 1)
             [] c # EOF /\ ~Escapes(c, quotes, hereness) /\ own
                  /\ hereness = "Normal" ->
                    IF next = c THEN StringGoesOn(pos + 2)
                    ELSE StringEnds(pos + 1)
             [] c # EOF /\ ~Escapes(c, quotes, hereness) /\ own
                  /\ hereness = "HereString" ->
                    IF ColIsOne(pos) /\ next = "@" THEN StringEnds(pos + 2)
                    ELSE StringGoesOn(pos + 1)
             [] c = "$" /\ quotes = "Double" ->
                    IF next \in {"(", "{"}
                    THEN /\ lstack' = Append(lstack,
                                        [CallFrame("group", pos + 1) EXCEPT
                                            !.delimiter = from_opening(next)])
                         /\ pos' = pos + 2
                         /\ lpc' = "parse_tt"
                         /\ UNCHANGED lresult
                    ELSE IF can_start_word(next)
                    THEN /\ lstack' = Pushed(lstack, parse_word(pos + 1))
                         /\ pos' = WordEnd(pos + 2)
                         /\ UNCHANGED << lpc, lresult >>
                    ELSE StringGoesOn(pos + 1)
             [] OTHER -> StringGoesOn(pos + 1)
    /\ UNCHANGED << source, comments, cstart, scopevars, gathervars,
                    filevars >>

\* the analysis stands still while a file is parsed
AnalysisIdle ==
    /\ files = EmptyMap
    /\ custom_cmdlets = {}
    /\ todo = << >>
    /\ pc = "idle"
    /\ path = 0
    /\ scope = NewScope(0)
    /\ stack = << >>
    /\ scopes = EmptyMap
    /\ ui = 1
    /\ already_analyzed = {}
    /\ used_dependencies = {}
    /\ emitted = << >>
    /\ result = Running
    /\ calls = EmptyMap
    /\ computed = EmptyMap
    /\ first = NoOutcome

\* the chars of the texts
Chars == Openings \cup Closings \cup Quotes \cup Digits \cup Blanks
         \cup { "a", "\n", "#", "<", ">", Backtick, "$", "@" }

\* the texts of at most n chars over the alphabet S
Texts(S, n) == UNION { [1..k -> S] : k \in 0..n }

\* what the body of a comment or of a string is made of
CommentChars == { "#", ">", "a", "\n" }

StringChars == { Backtick, "$", "a", Quote, Apostrophe, "(", ")", "\n" }

\* block comments, and strings and here-strings of either quote, with
\* every body of at most MaxBody chars
LongCommentTexts == { << "<", "#" >> \o b : b \in Texts(CommentChars, MaxBody) }

StringTexts == { << q >> \o b \o << q >> :
                q \in Quotes, b \in Texts(StringChars, MaxBody) }

HereStringTexts == { << "@", q >> \o b \o << "\n", q, "@" >> :
                    q \in Quotes, b \in Texts(StringChars, MaxBody) }

\* SpecParse: every text of at most MaxSource chars, and the longer
\* comments and strings
Sources == Texts(Chars, MaxSource) \cup LongCommentTexts \cup StringTexts
           \cup HereStringTexts

\* Parser::parse: a Muncher at the start of the text and the first call of
\* parse_tts
InitParse ==
    /\ source \in Sources
    /\ pos = 0
    /\ lpc = "parse_tt"
    /\ lstack = << CallFrame("top", 0) >>
    /\ lresult = Unparsed
    /\ comments = << >>
    /\ cstart = 0
    /\ GatherIdle
    /\ AnalysisIdle

NextParse ==
    \/ parse_tt
    \/ parse_group
    \/ Parser_parse
    \/ skip_to_newline
    \/ skip_long_comment
    \/ parse_string

SpecParse == InitParse /\ [][NextParse]_vars

\* ------------------------------------- functions gathered from a stream
\* The walk of syntax::parse through one Stage-2 stream
\* (src/src/syntax/mod.rs 156-180): names are cut from the source text, as
\* sequences of chars.

\* stage2::TokenTree, all variants in one record shape
TokenTree2(type, start, end) ==
    [type |-> type, start |-> start, end |-> end, symbol |-> "-",
     subtrees |-> << >>, interior |-> << >>, delimiter |-> "-",
     prefix |-> "-", ident |-> [start |-> start, end |-> end]]

\* FileStr::cut_from
cut_from(ident) == SubSeq(source, ident.start + 1, ident.end)

\* char::to_lowercase on the capital letters of the texts
Lower(c) ==
    CASE c = "E" -> "e"
      [] c = "F" -> "f"
      [] c = "I" -> "i"
      [] c = "X" -> "x"
      [] OTHER   -> c

\* str::to_lowercase
to_lowercase(name) == [i \in DOMAIN name |-> Lower(name[i])]

\* the patterns of the match of ident_is_keyword
Keywords ==
    { << "t", "h", "r", "o", "w" >>,
      << "t", "r", "y" >>,
      << "c", "a", "t", "c", "h" >>,
      << "f", "i", "n", "a", "l", "l", "y" >>,
      << "i", "f" >>,
      << "e", "l", "s", "e", "i", "f" >>,
      << "e", "l", "s", "e" >>,
      << "f", "o", "r", "e", "a", "c", "h" >>,
      << "d", "o" >>,
      << "w", "h", "i", "l", "e" >>,
      << "b", "e", "g", "i", "n" >>,
      << "p", "r", "o", "c", "e", "s", "s" >>,
      << "e", "n", "d" >>,
      << "e", "x", "i", "t" >>,
      << "c", "o", "n", "t", "i", "n", "u", "e" >>,
      << "b", "r", "e", "a", "k" >>,
      << "r", "e", "t", "u", "r", "n" >>,
      << "f", "u", "n", "c", "t", "i", "o", "n" >>,
      << "i", "n" >>,
      << "p", "a", "r", "a", "m" >> }

\* ident_is_keyword, had it compared the name as it is spelled
ident_is_keyword_Exact(ident) == ident \in Keywords

\* v2::ident_is_keyword
ident_is_keyword(ident) == to_lowercase(ident) \in Keywords

\* str::ends_with
ends_with(name, suffix) ==
    /\ Len(name) >= Len(suffix)
    /\ SubSeq(name, Len(name) - Len(suffix) + 1, Len(name)) = suffix

DotExe == << ".", "e", "x", "e" >>

\* syntax::Definition and syntax::Usage: a span and an item
Spanned(tt, item) == [start |-> tt.start, end |-> tt.end, item |-> item]

\* one iteration of the loop of the closure that gathers function
\* definitions and usages
GatherFunctions ==
    /\ lpc = "gather"
    /\ iter <= Len(stream)
    /\ LET tt   == stream[iter]
           name == cut_from(tt.ident)
       IN  /\ definitions' =
                IF tt.type = "Cmdlet" /\ is_function_definition
                THEN Append(definitions, Spanned(tt, function(name)))
                ELSE definitions
           /\ usages' =
                IF /\ tt.type = "Cmdlet"
                   /\ ~is_function_definition
                   /\ ~ident_is_keyword(name)
                   /\ ~ends_with(name, DotExe)
                THEN Append(usages, Spanned(tt, function(name)))
                ELSE usages
           /\ is_function_definition' = (tt.type = "FunctionKeyword")
    /\ iter' = iter + 1
    /\ UNCHANGED << stream, source, pos, lpc, lstack, lresult, comments,
                    cstart, scopevars, filevars >>

\* what the streams of SpecGather are made of: a token tree and its text
GatherTokens ==
    { [type |-> "Cmdlet", text |-> << "F", "o", "o" >>],
      [type |-> "Cmdlet", text |-> << "i", "f" >>],
      [type |-> "Cmdlet", text |-> << "I", "f" >>],
      [type |-> "Cmdlet", text |-> << "F", "u", "n", "c", "t", "i", "o", "n" >>],
      [type |-> "Cmdlet", text |-> << "a", ".", "e", "x", "e" >>],
      [type |-> "Cmdlet", text |-> << "a", ".", "E", "X", "E" >>],
      [type |-> "Cmdlet", text |-> << "e", "x", "e" >>],
      [type |-> "FunctionKeyword",
       text |-> << "f", "u", "n", "c", "t", "i", "o", "n" >>],
      [type |-> "Symbol", text |-> << ";" >>] }

\* the text that holds the given token trees, a blank between two of them,
\* and the stream of their spans in it
RECURSIVE Layout(_, _, _, _)
Layout(tokens, i, text, tts) ==
    IF i > Len(tokens) THEN [source |-> text, stream |-> tts]
    ELSE LET start == IF i = 1 THEN 0 ELSE Len(text) + 1
             end   == start + Len(tokens[i].text)
         IN  Layout(tokens, i + 1,
                    IF i = 1 THEN tokens[i].text
                    ELSE text \o << " " >> \o tokens[i].text,
                    Append(tts, TokenTree2(tokens[i].type, start, end)))

\* SpecGather: the closure walks through every stream of at most MaxTokens
\* of these token trees
InitGather ==
    /\ \E tokens \in Texts(GatherTokens, MaxTokens) :
            /\ source = Layout(tokens, 1, << >>, << >>).source
            /\ stream = Layout(tokens, 1, << >>, << >>).stream
    /\ iter = 1
    /\ is_function_definition = FALSE
    /\ definitions = << >>
    /\ usages = << >>
    /\ tts2 = Unparsed
    /\ streams = << >>
    /\ syntax_file = NoFile
    /\ output = NoOutput
    /\ pos = 0
    /\ lpc = "gather"
    /\ lstack = << >>
    /\ lresult = Unparsed
    /\ comments = << >>
    /\ cstart = 0
    /\ MuncherIdle
    /\ AnalysisIdle

NextGather == GatherFunctions

SpecGather == InitGather /\ [][NextGather]_vars

\* --------------------------------------------- Stage 2 and the parsed file
\* stage2::transform (src/src/syntax/v2/stage2.rs 125-393) as a function of
\* a Stage-1 stream, and the calls above it: v2::parse, syntax::parse and
\* parse_and_preprocess.  The texts hold no import line and no test case,
\* so a File is its definitions and usages.

\* Stream::peek behind the i-th tree of a stream: None behind the last one
PeekAt(input, i) ==
    IF i < Len(input) THEN input[i + 1] ELSE TokenTree("None", 0, 0)

\* the pattern TT1::Symbol { symbol, .. }
IsSymbol(tt, symbol) == tt.type = "Symbol" /\ tt.symbol = symbol

\* TokenTree::span
SpanOf(tt) == [start |-> tt.start, end |-> tt.end]

\* Option<Span>::None
NoSpan == [start |-> -1, end |-> -1]

\* a Stage-2 token tree of a span
Spanning(type, span) == TokenTree2(type, span.start, span.end)

\* TT::Symbol
Symbol2(symbol, span) == [Spanning("Symbol", span) EXCEPT !.symbol = symbol]

\* TT::Variable and TT::Flag: the ident is a part of the span
Identified(type, span, ident) ==
    [Spanning(type, span) EXCEPT !.ident = SpanOf(ident)]

\* parse_variable_name behind the i-th tree of the stream: the last tree it
\* consumed and the output it leaves
RECURSIVE parse_variable_name(_, _, _, _)
parse_variable_name(dollar_span, input, i, out) ==
    LET word  == PeekAt(input, i)
        colon == PeekAt(input, i + 1)
        span_with_dollar ==
            IF dollar_span = NoSpan THEN SpanOf(word) ELSE to(dollar_span, word)
        named == Append(out, Identified("Variable", span_with_dollar, word))
    IN  IF word.type # "Word" THEN [i |-> i, output |-> out]
        ELSE IF word.spacing = "Alone" THEN [i |-> i + 1, output |-> named]
        ELSE IF IsSymbol(colon, ":") /\ colon.spacing = "Joined"
        THEN parse_variable_name(NoSpan, input, i + 2,
                                 Append(named, Symbol2(":", SpanOf(colon))))
        ELSE [i |-> i + 1, output |-> named]

\* the loop that merges a command name: the last tree it consumes, given
\* that the i-th tree was the last one consumed
RECURSIVE CmdletEnd(_, _, _)
CmdletEnd(input, i, spacing) ==
    LET next == PeekAt(input, i) IN
    IF /\ spacing = "Joined"
       /\ \/ next.type = "Word"
          \/ next.type = "Symbol" /\ next.symbol \in { "-", "+", "." }
    THEN CmdletEnd(input, i + 1, next.spacing)
    ELSE i

\* the loop that merges an argument written without quotes
RECURSIVE ArgumentEnd(_, _, _)
ArgumentEnd(input, i, spacing) ==
    LET next == PeekAt(input, i) IN
    IF /\ spacing = "Joined"
       /\ \/ next.type = "Word"
          \/ next.type = "Symbol" /\ next.symbol # "\n"
    THEN ArgumentEnd(input, i + 1, next.spacing)
    ELSE i

Function == << "f", "u", "n", "c", "t", "i", "o", "n" >>

RECURSIVE transform(_, _, _)
RECURSIVE transform_from(_, _, _, _, _, _, _)
RECURSIVE transform_subtrees(_, _, _, _)

\* the loop over the subtrees of a string
transform_subtrees(subtrees, j, new_subtrees, delimiter) ==
    IF j > Len(subtrees) THEN ParseOk(new_subtrees)
    ELSE
    LET subtree == subtrees[j]
        span    == SpanOf(subtree)
        Pushee(tt) ==
            transform_subtrees(subtrees, j + 1, Append(new_subtrees, tt),
                               delimiter)
    IN  IF subtree.type = "Group" /\ subtree.delimiter = "Brace"
        THEN LET name == parse_variable_name(NoSpan, subtree.interior, 0,
                                             << >>)
             IN  IF name.i < Len(subtree.interior)
                 THEN SyntaxError("Variable name expected in {}-block",
                                  span.start)
                 ELSE Pushee([Spanning("Group", span) EXCEPT
                                !.interior = name.output,
                                !.delimiter = "Parenthesis"])
        ELSE IF subtree.type = "Group" /\ subtree.delimiter = "Parenthesis"
        THEN LET interior == transform(subtree.interior, "Function",
                                       "Parenthesis")
             IN  IF interior.kind = "Err" THEN interior
                 ELSE Pushee([Spanning("Group", span) EXCEPT
                                !.interior = interior.tts,
                                !.delimiter = delimiter,
                                !.prefix = "$"])
        ELSE IF subtree.type = "Word"
        THEN Pushee(Spanning("Variable", span))
        ELSE SyntaxError("ICE: Weird subtree in string", span.start)

\* the loop of transform from the i-th tree of the input on
transform_from(input, i, start_mode, delimiter, current_mode, out, class_keyword_encountered) ==
    IF i > Len(input) THEN ParseOk(out)
    ELSE
    LET consumed == input[i]
        peek     == PeekAt(input, i)
        span     == SpanOf(consumed)
        joined   == consumed.spacing = "Joined"
        \* the loop goes on behind the j-th tree
        Behind(j, mode, o, encountered) ==
            transform_from(input, j + 1, start_mode, delimiter, mode, o,
                           encountered)
        Push(tt, mode) ==
            Behind(i, mode, Append(out, tt), class_keyword_encountered)
    IN
    \* newline handling
    IF IsSymbol(consumed, Backtick) /\ joined
    THEN IF IsSymbol(peek, "\n")
         THEN Behind(i + 1, current_mode, out, class_keyword_encountered)
         ELSE SyntaxError("Unknown escape", span.start)
    ELSE IF IsSymbol(consumed, "\n") /\ delimiter = "Brace"
    THEN Push(Symbol2(";", span), start_mode)
    ELSE IF IsSymbol(consumed, "|") \/ IsSymbol(consumed, "+")
    THEN Behind(IF IsSymbol(peek, "\n") THEN i + 1 ELSE i,
                IF consumed.symbol = "|" THEN "Function" ELSE current_mode,
                Append(out, Symbol2(consumed.symbol, span)),
                class_keyword_encountered)
    \* words
    ELSE IF consumed.type = "Word" /\ current_mode \in { "Field", "Annotation" }
    THEN Push(Spanning("Field", span), "Argument")
    ELSE IF consumed.type = "Word" /\ current_mode = "Function"
    THEN LET last  == CmdletEnd(input, i, consumed.spacing)
             whole == to(consumed, input[last])
             ident == cut_from(whole)
         IN  IF ident = Function
             THEN Behind(last, current_mode,
                         Append(out, Spanning("FunctionKeyword", whole)),
                         class_keyword_encountered)
             ELSE IF ident = << "c", "l", "a", "s", "s" >>
             THEN Behind(last, current_mode,
                         Append(out, Spanning("ClassKeyword", whole)), TRUE)
             ELSE IF ident = << "r", "e", "t", "u", "r", "n" >>
             THEN Behind(last, "Function",
                         Append(out, Spanning("ReturnKeyword", whole)),
                         class_keyword_encountered)
             ELSE Behind(last, "Argument",
                         Append(out, Spanning("Cmdlet", whole)),
                         class_keyword_encountered)
    ELSE IF consumed.type = "Word" \* Mode::Argument
    THEN IF cut_from(span) = << "i", "n" >>
         THEN Push(Spanning("InKeyword", span), "Function")
         ELSE LET last == ArgumentEnd(input, i, consumed.spacing)
              IN  Behind(last, current_mode,
                         Append(out, Spanning("Word",
                                              to(consumed, input[last]))),
                         class_keyword_encountered)
    \* words after symbols
    ELSE IF IsSymbol(consumed, "$") /\ joined
    THEN IF peek.type = "Word"
         THEN LET name == parse_variable_name(span, input, i, out)
              IN  Behind(name.i, "Argument", name.output,
                         class_keyword_encountered)
         ELSE Push(Symbol2("$", span), current_mode)
    ELSE IF IsSymbol(consumed, "-") /\ joined
    THEN IF peek.type = "Word"
         THEN Behind(i + 1, "Argument",
                     Append(out, Identified("Flag", to(consumed, peek), peek)),
                     class_keyword_encountered)
         ELSE Push(Symbol2("-", span), current_mode)
    \* important symbols
    ELSE IF IsSymbol(consumed, "=")
    THEN Push(Symbol2("=", span), "Function")
    ELSE IF IsSymbol(consumed, ".")
    THEN Push(Symbol2("=", span), "Field")
    ELSE IF IsSymbol(consumed, ":") /\ joined
    THEN IF IsSymbol(peek, ":")
         THEN Behind(i + 1, "Field",
                     Append(out, Spanning("Square", to(consumed, peek))),
                     class_keyword_encountered)
         ELSE Push(Symbol2(":", span), current_mode)
    ELSE IF IsSymbol(consumed, ";")
    THEN Push(Symbol2(";", span), start_mode)
    ELSE IF IsSymbol(consumed, ",") /\ start_mode = "Annotation"
    THEN Push(Symbol2(",", span), start_mode)
    \* recursion
    ELSE IF consumed.type = "Group"
    THEN LET at == /\ out # << >>
                   /\ out[Len(out)].type = "Symbol"
                   /\ out[Len(out)].symbol = "@"
                   /\ out[Len(out)].end = span.start
             mode ==
                IF at THEN "Field"
                ELSE IF /\ class_keyword_encountered
                        /\ consumed.delimiter = "Brace" THEN "Field"
                ELSE IF start_mode = "Annotation" THEN "Annotation"
                ELSE IF consumed.delimiter = "Bracket" THEN "Annotation"
                ELSE "Function"
             interior == transform(consumed.interior, mode,
                                   consumed.delimiter)
             group ==
                [Spanning("Group",
                          IF at THEN to(out[Len(out)], consumed) ELSE span)
                    EXCEPT !.interior = interior.tts,
                           !.delimiter = consumed.delimiter,
                           !.prefix = IF at THEN "@" ELSE "-"]
         IN  IF interior.kind = "Err" THEN interior
             ELSE Behind(i, current_mode,
                         Append(IF at THEN SubSeq(out, 1, Len(out) - 1)
                                ELSE out, group),
                         FALSE)
    ELSE IF consumed.type = "String"
    THEN LET new_subtrees == transform_subtrees(consumed.subtrees, 1, << >>,
                                                delimiter)
         IN  IF new_subtrees.kind = "Err" THEN new_subtrees
             ELSE Push([Spanning("String", span) EXCEPT
                            !.subtrees = new_subtrees.tts], "Argument")
    \* leftovers
    ELSE IF consumed.type = "Symbol"
    THEN Push(Symbol2(consumed.symbol, span), current_mode)
    ELSE Push(Spanning("Number", span), "Argument")

\* stage2::transform
transform(input, start_mode, delimiter) ==
    transform_from(input, 1, start_mode, delimiter, start_mode, << >>, FALSE)

\* Faulty variant: the top level is transformed like the interior of a
\* parenthesis, where a newline separates nothing
from_stage1_Parenthesis(tt1) == transform(tt1, "Function", "Parenthesis")

\* TT::from_stage1
from_stage1(tt1) == transform(tt1, "Function", "Brace")

\* v2::parse, had it taken a failure of Stage 2 for an empty stream
v2_parse_Stage2Unchecked(tts1) ==
    IF tts1.kind = "Err" THEN tts1
    ELSE IF from_stage1(tts1.tts).kind = "Err" THEN ParseOk(<< >>)
    ELSE from_stage1(tts1.tts)

\* v2::parse behind stage1::parse: the two matches on a Result
v2_parse(tts1) ==
    IF tts1.kind = "Err" THEN tts1 ELSE from_stage1(tts1.tts)

\* v2::traverse_streams: the stream itself, then the streams inside its
\* groups and strings, each with the delimiter around it
RECURSIVE traverse_streams(_, _)
RECURSIVE traverse_inner(_, _)
traverse_inner(tts, i) ==
    IF i > Len(tts) THEN << >>
    ELSE (IF tts[i].type = "Group"
          THEN traverse_streams(tts[i].interior, tts[i].delimiter)
          ELSE IF tts[i].type = "String"
          THEN traverse_streams(tts[i].subtrees, "-")
          ELSE << >>)
         \o traverse_inner(tts, i + 1)

traverse_streams(tts, delim) ==
    << [tts |-> tts, delim |-> delim] >> \o traverse_inner(tts, 1)

\* Result<File>
FileOk(defs, uses) ==
    [kind |-> "Ok", what |-> "-", where |-> 0, definitions |-> defs,
     usages |-> uses]

FileErr(e) ==
    [kind |-> "Err", what |-> e.what, where |-> e.where,
     definitions |-> << >>, usages |-> << >>]

\* the closure that gathers class definitions and usages, on one stream
RECURSIVE ClassDefinitions(_, _)
ClassDefinitions(tts, i) ==
    IF i >= Len(tts) THEN << >>
    ELSE (IF tts[i].type = "ClassKeyword" /\ tts[i + 1].type = "Field"
          THEN << Spanned(tts[i + 1], class(cut_from(tts[i + 1].ident))) >>
          ELSE << >>)
         \o ClassDefinitions(tts, i + 1)

ClassUsages(tts, delim) ==
    IF Len(tts) = 1 /\ tts[1].type = "Field" /\ delim = "Bracket"
    THEN << Spanned(tts[1], class(cut_from(tts[1].ident))) >>
    ELSE << >>

\* the second traverse_streams of syntax::parse
RECURSIVE GatherClasses(_, _)
GatherClasses(every, j) ==
    IF j > Len(every)
    THEN [definitions |-> << >>, usages |-> << >>]
    ELSE LET rest == GatherClasses(every, j + 1)
         IN  [definitions |-> ClassDefinitions(every[j].tts, 1)
                              \o rest.definitions,
              usages |-> ClassUsages(every[j].tts, every[j].delim)
                         \o rest.usages]

\* the rest of the program but the emitter
quietvars == << files, custom_cmdlets, todo, pc, path, scope, stack, scopes,
                ui, already_analyzed, used_dependencies, result, calls,
                computed, first, munchvars >>

\* v2::parse returns to syntax::parse
Stage2 ==
    /\ lpc = "done"
    /\ tts2' = v2_parse(lresult)
    /\ lpc' = "v2"
    /\ UNCHANGED << source, pos, lstack, lresult, comments, cstart,
                    gathervars, streams, syntax_file, output, scopevars >>

\* syntax::parse behind `v2::parse(source, debug)?`: the error returns,
\* or the first traverse_streams starts on the whole stream
syntax_parse ==
    /\ lpc = "v2"
    /\ IF tts2.kind = "Err"
       THEN /\ syntax_file' = FileErr(tts2)
            /\ lpc' = "file"
            /\ UNCHANGED << streams, gathervars >>
       ELSE /\ streams' = traverse_streams(tts2.tts, "-")
            /\ stream' = tts2.tts
            /\ iter' = 1
            /\ is_function_definition' = FALSE
            /\ definitions' = << >>
            /\ usages' = << >>
            /\ lpc' = "gather"
            /\ UNCHANGED syntax_file
    /\ UNCHANGED << source, pos, lstack, lresult, comments, cstart, tts2,
                    output, scopevars >>

\* the closure has walked through a stream: traverse_streams calls it on
\* the next one, or syntax::parse gathers the classes and returns the File
NextStream ==
    /\ lpc = "gather"
    /\ streams # << >>
    /\ iter > Len(stream)
    /\ IF Len(streams) > 1
       THEN /\ streams' = Tail(streams)
            /\ stream' = streams[2].tts
            /\ iter' = 1
            /\ is_function_definition' = FALSE
            /\ UNCHANGED << definitions, usages, syntax_file, lpc >>
       ELSE LET classes == GatherClasses(traverse_streams(tts2.tts, "-"), 1)
            IN  /\ syntax_file' = FileOk(definitions \o classes.definitions,
                                  usages \o classes.usages)
                /\ streams' = << >>
                /\ lpc' = "file"
                /\ UNCHANGED gathervars
    /\ UNCHANGED << source, pos, lstack, lresult, comments, cstart, tts2,
                    output, scopevars >>

\* PreprocessOutput
SyntaxErrors == [kind |-> "SyntaxErrors", definitions |-> << >>,
                 usages |-> << >>]

Valid(parsed) ==
    [kind |-> "Valid", definitions |-> parsed.definitions,
     usages |-> parsed.usages]

\* parse_and_preprocess behind syntax::parse
parse_and_preprocess ==
    /\ lpc = "file"
    /\ IF syntax_file.kind = "Err"
       THEN /\ emitted' = Append(emitted,
                    Finding("SyntaxErrors", path, syntax_file.where,
                            syntax_file.what,
                            << "Column",
                               "If this is valid PowerShell syntax, please file an issue" >>))
            /\ output' = SyntaxErrors
       ELSE /\ output' = Valid(syntax_file)
            /\ UNCHANGED emitted
    /\ lpc' = "preprocessed"
    /\ UNCHANGED << source, pos, lstack, lresult, comments, cstart,
                    gathervars, tts2, streams, syntax_file, quietvars >>

\* what the texts of SpecSyntax are made of
Lexemes ==
    { << "a" >>, Function, << " " >>, << "\n" >>, << "-" >>, << "$" >>,
      << ":" >>, << Backtick >>, << Quote >>, << "(" >>, << ")" >>,
      << "{" >>, << "}" >>, << "#" >>, << "<", "#" >>,
      << Quote, "$", "{" >>, << "}", Quote >> }

RECURSIVE Flatten(_)
Flatten(ls) == IF ls = << >> THEN << >> ELSE Head(ls) \o Flatten(Tail(ls))

\* SpecSyntax: parse_and_preprocess of every text of at most MaxLexemes of
\* these
InitSyntax ==
    /\ \E ls \in Texts(Lexemes, MaxLexemes) : source = Flatten(ls)
    /\ pos = 0
    /\ lpc = "parse_tt"
    /\ lstack = << CallFrame("top", 0) >>
    /\ lresult = Unparsed
    /\ comments = << >>
    /\ cstart = 0
    /\ GatherIdle
    /\ AnalysisIdle

NextSyntax ==
    \/ NextParse
    \/ Stage2
    \/ syntax_parse
    \/ GatherFunctions
    \/ NextStream
    \/ parse_and_preprocess

SpecSyntax == InitSyntax /\ [][NextSyntax]_vars

\* ====================================================================
\* The import graph, read off `files` alone
\* ====================================================================
ImportsOf(f) == IF f \in DOMAIN files THEN files[f].imports ELSE {}

RECURSIVE Closure(_)
Closure(S) ==
    LET T == S \cup UNION { ImportsOf(f) : f \in S }
    IN  IF T = S THEN S ELSE Closure(T)

\* the paths reachable from f through one or more imports
Reach(f) == Closure(ImportsOf(f))

OnCycle(f) == f \in Reach(f)

Cyclic == \E f \in DOMAIN files : OnCycle(f)

ReachesCycle(f) == OnCycle(f) \/ \E g \in Reach(f) : OnCycle(g)

IsResolved(f) == scopes[f].tag = "Resolved"

ScopeOf(f) == scopes[f].scope

CycleError == result.kind = "Err" /\ result.error = "recursive"

\* C1: if the import graph contains a cycle (a two-file loop, a longer loop
\* or a self-import), analyze never returns a scope map, and the run ends
\* by returning an error.
C1_CycleFailsRun ==
    /\ [](Cyclic => pc # "done" /\ pc # "panic")
    /\ (Cyclic => <>(result.kind = "Err"))

\* C1 witness: the run has failed on a loop of two or more files
C1_Witness ==
    /\ CycleError
    /\ result.file \notin ImportsOf(result.file)
    /\ OnCycle(result.file)

\* C2 as stated: when the run fails because of an import cycle, the emitter
\* has received nothing.
C2_NothingEmittedOnCycleError == CycleError => emitted = << >>

\* C2, amended: no finding is ever emitted for a file that is on a cycle or
\* reaches one; when the run fails because of an import cycle, the emitter
\* holds findings only of files that precede, in path order, the file whose
\* scope request failed, and nothing if that file is the first one.
C2_OnlyEarlierFilesLinted ==
    /\ \A i \in DOMAIN emitted : ~ReachesCycle(emitted[i].file)
    /\ CycleError =>
            /\ ReachesCycle(path)
            /\ \A i \in DOMAIN emitted : emitted[i].file < path
            /\ (path = Min(DOMAIN files) => emitted = << >>)

\* C2 witness: a cycle error after an earlier file has been linted
C2_Witness == CycleError /\ emitted # << >>

\* C3 as stated: a cycle is the only condition that aborts the run; an
\* acyclic project, even one that imports a path absent from the map,
\* never makes analyze return an error.
C3_OnlyCyclesAbort == ~Cyclic => result.kind # "Err"

\* an item with its name folded: equal for two items exactly when they have
\* the same kind and the same name ignoring letter case
Key(item) == [name |-> UniCase(item.name), kind |-> item.kind]

\* the definitions of the files in G, as case-insensitive items
KeysDefinedIn(G) ==
    UNION { { Key(files[g].definitions[i]) :
                i \in DOMAIN files[g].definitions } : g \in G \cap DOMAIN files }

\* C4: the key set of a file's resolved Scope is exactly the set of
\* case-insensitive items defined in the file or in a file reachable from
\* it through imports; a run that returns Ok has resolved every file.
C4_ScopeKeysAreReachableDefinitions ==
    /\ \A f \in DOMAIN files :
            IsResolved(f) => DOMAIN ScopeOf(f).items = KeysDefinedIn({f} \cup Reach(f))
    /\ (pc = "done" => \A f \in DOMAIN files : IsResolved(f))

\* C4 witness: a resolved scope holding a key that only a transitively
\* (not directly) imported file defines
C4_Witness ==
    \E f \in DOMAIN files :
        /\ IsResolved(f)
        /\ \E k \in DOMAIN ScopeOf(f).items :
                k \notin KeysDefinedIn({f} \cup ImportsOf(f))

\* C5: when a file defines an item whose case-insensitive name and kind
\* collide with an item it imports, directly or transitively, the entry of
\* its resolved Scope for that key has the file itself as origin.
C5_OwnDefinitionWins ==
    \A f \in DOMAIN files :
        IsResolved(f) =>
            \A k \in KeysDefinedIn({f}) : ScopeOf(f).items[k].origin = f

\* C5 witness: a resolved file that defines a key one of its transitive
\* imports defines too
C5_Witness ==
    \E f \in DOMAIN files :
        /\ IsResolved(f)
        /\ KeysDefinedIn({f}) \cap KeysDefinedIn(Reach(f) \ {f}) # {}

\* C8: within one run the scope of a file is computed at most once; a
\* Resolved cache entry never changes, and a later request for the file
\* returns that entry.
C8_ComputedOnce ==
    /\ [](\A f \in DOMAIN computed : computed[f] <= 1)
    /\ [][\A f \in DOMAIN scopes : IsResolved(f) => scopes'[f] = scopes[f]]_vars
    /\ [][(pc = "loop" /\ pc' = "usages") => scope' = ScopeOf(path')]_vars

\* C8 witness: a file requested more than once and computed once
C8_Witness ==
    \E f \in DOMAIN files : calls[f] >= 2 /\ computed[f] = 1 /\ IsResolved(f)

\* ====================================================================
\* Usages
\* ====================================================================
Range(seq) == { seq[i] : i \in DOMAIN seq }

\* the usage loop of analyze has gone past usage i of file f
Processed(f, i) ==
    /\ i \in DOMAIN files[f].usages
    /\ \/ f # path /\ f \notin Range(todo)
       \/ f = path /\ pc \in {"usages", "panic"} /\ i < ui
       \/ f = path /\ pc \in {"loop", "done"}

\* the first usage in f of the item that usage i names, ignoring case
FirstUse(f, i) ==
    Min({ j \in DOMAIN files[f].usages :
            Key(files[f].usages[j]) =
                Key(files[f].usages[i]) })

\* an item of that name and kind is defined in f or in a file f reaches
Visible(f, i) ==
    Key(files[f].usages[i]) \in KeysDefinedIn({f} \cup Reach(f))

Skipped(f, i) ==
    \/ Key(files[f].usages[i]) \in BUILTINS
    \/ Key(files[f].usages[i]) \in custom_cmdlets

\* the unknown-function findings of file f located at a usage of `item`
UnknownFindings(f, item) ==
    { j \in DOMAIN emitted :
        /\ emitted[j].lint = "UnknownFunctions"
        /\ emitted[j].file = f
        /\ Key(files[f].usages[emitted[j].at]) =
                Key(item) }

\* C9: a function usage whose case-insensitive name matches no definition
\* in the using file's scope, no built-in and no configured custom command
\* is reported by exactly one unknown-function finding of that file, placed
\* at and spelled as the first usage of the name in the file.
C9_UnknownFunctionReported ==
    \A f \in DOMAIN files : \A i \in DOMAIN files[f].usages :
        ( /\ Processed(f, i)
          /\ files[f].usages[i].kind = "Function"
          /\ ~Visible(f, i)
          /\ ~Skipped(f, i) )
        => /\ Cardinality(UnknownFindings(f, files[f].usages[i])) = 1
           /\ \E j \in DOMAIN emitted :
                emitted[j] = Finding("UnknownFunctions", f, FirstUse(f, i),
                                     files[f].usages[FirstUse(f, i)].name, << >>)

\* C9 witness: no definitions anywhere, a file uses `Foo` (and `foo`), the
\* run is over and exactly one unknown-function finding was emitted
C9_Witness ==
    /\ pc = "done"
    /\ KeysDefinedIn(DOMAIN files) = {}
    /\ \E f \in DOMAIN files :
            /\ files[f].usages = << function("Foo"), function("foo") >>
            /\ Cardinality(UnknownFindings(f, function("Foo"))) = 1
            /\ Len(emitted) = 1

\* the files whose definition the scope of f holds for usage i
DefiningFiles(f, i) ==
    { ScopeOf(f).items[k].origin :
        k \in { x \in DOMAIN ScopeOf(f).items : Key(x) = Key(files[f].usages[i]) } }

Resolves(f, i) ==
    /\ UnknownFindings(f, files[f].usages[i]) = {}
    /\ (f = path => /\ DefiningFiles(f, i) # {}
                    /\ DefiningFiles(f, i) \subseteq used_dependencies)

\* C10 as stated: every usage that equals, ignoring case, the name of a
\* visible definition of the same kind produces no unknown-function
\* finding and records the defining file as used.
C10_VisibleUsageResolves ==
    \A f \in DOMAIN files : \A i \in DOMAIN files[f].usages :
        (Processed(f, i) /\ Visible(f, i)) => Resolves(f, i)

\* C10, amended: the same, for names that are neither a built-in nor a
\* configured custom command.
C10_VisibleUnskippedUsageResolves ==
    \A f \in DOMAIN files : \A i \in DOMAIN files[f].usages :
        (Processed(f, i) /\ Visible(f, i) /\ ~Skipped(f, i)) => Resolves(f, i)

\* C10 witness: a usage spelled differently from the imported definition
\* it names has been resolved and its defining file recorded as used
C10_Witness ==
    /\ path \in DOMAIN files
    /\ \E i \in DOMAIN files[path].usages :
        /\ Processed(path, i)
        /\ Visible(path, i)
        /\ ~Skipped(path, i)
        /\ DefiningFiles(path, i) # {}
        /\ path \notin DefiningFiles(path, i)
        /\ DefiningFiles(path, i) \subseteq used_dependencies
        /\ \A g \in DefiningFiles(path, i) :
                files[path].usages[i] \notin Range(files[g].definitions)

\* ====================================================================
\* Collisions between imports, and the order of the top-level loop
\* ====================================================================
\* the direct imports of f that define the key k themselves
DirectDefiners(f, k) == { d \in ImportsOf(f) : k \in KeysDefinedIn({d}) }

\* k is also defined by a file that f does not import directly and reaches
\* through a direct import other than d
DefinedBehindOtherImport(f, d, k) ==
    \E d2 \in ImportsOf(f) \ {d} :
        \E g \in Reach(d2) \ (ImportsOf(f) \cup {f}) : k \in KeysDefinedIn({g})

\* C6 as stated: when exactly one direct import of a file defines a name
\* and another file, reached only through a different direct import,
\* defines it too, the file's Scope maps the name to the direct import.
C6_CloserDefinitionKept ==
    \A f \in DOMAIN files :
        IsResolved(f) =>
            \A d \in ImportsOf(f) : \A k \in KeysDefinedIn({d}) \ KeysDefinedIn({f}) :
                (DirectDefiners(f, k) = {d} /\ DefinedBehindOtherImport(f, d, k))
                    => ScopeOf(f).items[k].origin = d

\* C7 as stated: for an acyclic project a run that visits the files in any
\* order ends with the same result, the same scopes and the same set of
\* findings as the run in path order.
C7_OrderIrrelevant ==
    (~Cyclic /\ first # NoOutcome /\ pc \in {"done", "failed", "panic"})
        => Outcome = first

\* ====================================================================
\* Findings about resolved usages
\* ====================================================================
\* usage i of f went through resolution: it is the first usage of its item
\* in the file and names no built-in or configured command
Analysed(f, i) == Processed(f, i) /\ FirstUse(f, i) = i /\ ~Skipped(f, i)

\* the entries the scope of f holds for the item of usage i
ResolvedDefs(f, i) ==
    { ScopeOf(f).items[k] :
        k \in { x \in DOMAIN ScopeOf(f).items : Key(x) = Key(files[f].usages[i]) } }

\* the definition as it is written in the file it comes from
DefSpelling(d) == files[d.origin].definitions[d.definition.span]

SpellingDiffers(f, i) ==
    \E d \in ResolvedDefs(f, i) : DefSpelling(d) # files[f].usages[i]

FindingsAt(lint, f, i) ==
    { j \in DOMAIN emitted :
        emitted[j].lint = lint /\ emitted[j].file = f /\ emitted[j].at = i }

\* C11 as stated: every usage of a file that names a visible definition
\* reports invalid-letter-casing exactly when its spelling differs from
\* the definition's.
C11_CasingIffSpellingDiffers ==
    \A f \in DOMAIN files : \A i \in DOMAIN files[f].usages :
        (Processed(f, i) /\ Visible(f, i)) =>
            (FindingsAt("InvalidLetterCasing", f, i) # {} <=> SpellingDiffers(f, i))

\* C11, amended: a usage has exactly one invalid-letter-casing finding when
\* it is analysed, names a visible definition and is spelled differently
\* from it, and none otherwise.
C11_CasingIffAnalysedSpellingDiffers ==
    \A f \in DOMAIN files : \A i \in DOMAIN files[f].usages :
        Processed(f, i) =>
            Cardinality(FindingsAt("InvalidLetterCasing", f, i)) =
                IF Analysed(f, i) /\ Visible(f, i) /\ SpellingDiffers(f, i) THEN 1 ELSE 0

\* C11 witness: a finished file with two analysed usages that resolve and
\* are spelled differently from their definitions, and two casing findings
C11_Witness ==
    /\ pc = "done"
    /\ \E f \in DOMAIN files :
        /\ Len(files[f].usages) = 2
        /\ \A i \in DOMAIN files[f].usages :
                /\ Analysed(f, i) /\ Visible(f, i) /\ SpellingDiffers(f, i)
                /\ FindingsAt("InvalidLetterCasing", f, i) # {}
        /\ \A j \in DOMAIN emitted : emitted[j].lint # "UnknownFunctions"

\* the item of usage i is held by the scope of f with an origin that is
\* neither f nor one of its direct imports
IndirectlyResolved(f, i) ==
    \E d \in ResolvedDefs(f, i) : d.origin \notin ({f} \cup ImportsOf(f))

\* the direct imports of f whose own scope holds the item of usage i
ReachingImports(f, i) ==
    { d \in ImportsOf(f) : Key(files[f].usages[i]) \in KeysDefinedIn({d} \cup Reach(d)) }

\* a file with no definitions and no usages
IsBag(g) == files[g].definitions = << >> /\ files[g].usages = << >>

ReachingBags(f, i) == { d \in ReachingImports(f, i) : IsBag(d) }

\* C12 as stated: an analysed usage spelled differently from the definition
\* it resolves to reports invalid-letter-casing whatever the directness,
\* and the indirectly-imported finding too when it is reached indirectly.
C12_CasingWithIndirectFinding ==
    \A f \in DOMAIN files : \A i \in DOMAIN files[f].usages :
        (Analysed(f, i) /\ Visible(f, i) /\ SpellingDiffers(f, i)) =>
            /\ FindingsAt("InvalidLetterCasing", f, i) # {}
            /\ IndirectlyResolved(f, i) => FindingsAt("IndirectImports", f, i) # {}

\* C12, amended: the same, the indirectly-imported finding being reported
\* when no direct import that reaches the item is an import bag.
C12_CasingWhateverDirectness ==
    \A f \in DOMAIN files : \A i \in DOMAIN files[f].usages :
        (Analysed(f, i) /\ Visible(f, i) /\ SpellingDiffers(f, i)) =>
            /\ FindingsAt("InvalidLetterCasing", f, i) # {}
            /\ (IndirectlyResolved(f, i) /\ ReachingBags(f, i) = {})
                    => FindingsAt("IndirectImports", f, i) # {}
            /\ (IndirectlyResolved(f, i) /\ ReachingBags(f, i) # {})
                    => FindingsAt("IndirectImports", f, i) = {}

\* C12 witness: an indirectly resolved usage with a differing spelling has
\* both findings
C12_Witness ==
    \E f \in DOMAIN files : \E i \in DOMAIN files[f].usages :
        /\ Analysed(f, i) /\ Visible(f, i) /\ SpellingDiffers(f, i)
        /\ IndirectlyResolved(f, i)
        /\ FindingsAt("InvalidLetterCasing", f, i) # {}
        /\ FindingsAt("IndirectImports", f, i) # {}

\* C13 as stated: every analysed usage that resolves to a definition whose
\* origin is neither the using file nor one of its direct imports reports
\* exactly one indirectly-imported finding at the usage.
C13_IndirectAlwaysReported ==
    \A f \in DOMAIN files : \A i \in DOMAIN files[f].usages :
        (Analysed(f, i) /\ IndirectlyResolved(f, i)) =>
            Cardinality(FindingsAt("IndirectImports", f, i)) = 1

\* the first direct import of f, in path order, that reaches the item
FirstReaching(f, i) == Min(ReachingImports(f, i))

\* C13, amended: such a usage reports exactly one indirectly-imported
\* finding, naming the used identifier, the first direct import that
\* reaches the item and the origin, unless a direct import that reaches the
\* item is an import bag, and then it reports none; no other usage reports
\* an indirectly-imported finding.
C13_IndirectReportedUnlessThroughBag ==
    \A f \in DOMAIN files : \A i \in DOMAIN files[f].usages :
        Processed(f, i) =>
            IF Analysed(f, i) /\ IndirectlyResolved(f, i) /\ ReachingBags(f, i) = {}
            THEN /\ Cardinality(FindingsAt("IndirectImports", f, i)) = 1
                 /\ \E j \in FindingsAt("IndirectImports", f, i) :
                        /\ emitted[j].what = files[f].usages[i].name
                        /\ emitted[j].notes[1] = FirstReaching(f, i)
                        /\ \E d \in ResolvedDefs(f, i) : emitted[j].notes[2] = d.origin
            ELSE FindingsAt("IndirectImports", f, i) = {}

\* C13 witness: the chain f imports b imports c, c defines what f uses, b
\* is no import bag, and f has exactly one indirectly-imported finding
C13_Witness ==
    /\ pc = "done"
    /\ \E f \in DOMAIN files : \E i \in DOMAIN files[f].usages :
        /\ Analysed(f, i) /\ IndirectlyResolved(f, i)
        /\ \E b \in ImportsOf(f) : ~IsBag(b) /\ ReachingImports(f, i) = {b}
        /\ Cardinality({ j \in DOMAIN emitted :
                emitted[j].lint = "IndirectImports" /\ emitted[j].file = f }) = 1

\* ====================================================================
\* Unused imports
\* ====================================================================
\* the iteration of analyze's loop for file f is over
FileDone(f) == f \notin Range(todo) /\ (f # path \/ pc \in {"loop", "done"})

\* C14: when an analysed usage resolves indirectly and a direct import that
\* reaches the item is an import bag, the (first such) bag import is
\* recorded as used by the using file, and the finished file has no
\* unused-import finding for a bag import that reaches the item.
C14_UseAttributedToBag ==
    \A f \in DOMAIN files : \A i \in DOMAIN files[f].usages :
        (Analysed(f, i) /\ IndirectlyResolved(f, i) /\ ReachingBags(f, i) # {}) =>
            /\ f = path => Min(ReachingBags(f, i)) \in used_dependencies
            /\ FileDone(f) =>
                    \A b \in ReachingBags(f, i) : FindingsAt("UnusedImports", f, b) = {}

\* C14 witness: a finished file whose usage was resolved through an import
\* bag that is recorded as used
C14_Witness ==
    /\ path \in DOMAIN files
    /\ FileDone(path)
    /\ \E i \in DOMAIN files[path].usages :
        /\ Analysed(path, i) /\ IndirectlyResolved(path, i)
        /\ ReachingBags(path, i) # {}
        /\ Min(ReachingBags(path, i)) \in used_dependencies

\* C15 as stated: a usage of a visible item is classified Direct exactly
\* when the using file or one of its direct imports defines the item, and
\* a usage so defined has no indirectly-imported finding.
C15_DirectIffDefinedNearby ==
    \A f \in DOMAIN files :
        IsResolved(f) =>
            \A i \in DOMAIN files[f].usages :
                Visible(f, i) =>
                    /\ search(ScopeOf(f), files[f].usages[i]).found = "Direct"
                            <=> Key(files[f].usages[i]) \in KeysDefinedIn({f} \cup ImportsOf(f))
                    /\ Key(files[f].usages[i]) \in KeysDefinedIn({f} \cup ImportsOf(f))
                            => FindingsAt("IndirectImports", f, i) = {}

\* an analysed usage of f resolves to a definition whose origin is d
ResolvesTo(f, d) ==
    \E i \in DOMAIN files[f].usages :
        Analysed(f, i) /\ \E x \in ResolvedDefs(f, i) : x.origin = d

\* the direct import an indirectly resolved usage is attributed to
AttributedImport(f, i) ==
    IF ReachingBags(f, i) # {} THEN Min(ReachingBags(f, i)) ELSE FirstReaching(f, i)

\* an analysed usage of f resolves indirectly and is attributed to d
ResolvesThrough(f, d) ==
    \E i \in DOMAIN files[f].usages :
        Analysed(f, i) /\ IndirectlyResolved(f, i) /\ AttributedImport(f, i) = d

\* C16 as stated: a finished file with definitions of its own has one
\* unused-import finding for every direct import that none of its usages
\* resolves to, and none for any other import.
C16_UnusedIffNoUsageResolvesToIt ==
    \A f \in DOMAIN files :
        (FileDone(f) /\ files[f].definitions # << >>) =>
            \A d \in ImportsOf(f) :
                Cardinality(FindingsAt("UnusedImports", f, d)) =
                    IF ResolvesTo(f, d) THEN 0 ELSE 1

\* C16, amended: a finished file that is no import bag has one
\* unused-import finding for every direct import that defines a function
\* or class, that no analysed usage resolves to and that no indirectly
\* resolved usage is attributed to; it has none for any other import.
C16_UnusedIffDefiningAndNotUsed ==
    \A f \in DOMAIN files :
        (FileDone(f) /\ ~IsBag(f)) =>
            /\ \A d \in ImportsOf(f) :
                Cardinality(FindingsAt("UnusedImports", f, d)) =
                    IF /\ files[d].definitions # << >>
                       /\ ~ResolvesTo(f, d)
                       /\ ~ResolvesThrough(f, d)
                    THEN 1 ELSE 0
            /\ \A j \in DOMAIN emitted :
                (emitted[j].lint = "UnusedImports" /\ emitted[j].file = f)
                    => emitted[j].at \in ImportsOf(f)

\* C16 witness: a finished file that is no import bag, with one import it
\* uses and one defining import it does not use, the latter reported
C16_Witness ==
    \E f \in DOMAIN files :
        /\ FileDone(f) /\ ~IsBag(f)
        /\ \E d \in ImportsOf(f) :
                ResolvesTo(f, d) /\ FindingsAt("UnusedImports", f, d) = {}
        /\ \E d \in ImportsOf(f) :
                ~ResolvesTo(f, d) /\ FindingsAt("UnusedImports", f, d) # {}

\* the unused-import findings of file f
UnusedFindingsOf(f) ==
    { j \in DOMAIN emitted :
        emitted[j].lint = "UnusedImports" /\ emitted[j].file = f }

\* C17 as stated: a file with zero function and class definitions never
\* reports an unused-import finding.
C17_NoDefinitionsNeverReports ==
    \A f \in DOMAIN files :
        files[f].definitions = << >> => UnusedFindingsOf(f) = {}

\* C17, amended: a file with no function or class definition and no usage
\* never reports an unused-import finding for any of its imports.
C17_BagNeverReports ==
    \A f \in DOMAIN files : IsBag(f) => UnusedFindingsOf(f) = {}

\* C17 witness: a finished import bag that imports a defining file which a
\* downstream file uses through it
C17_Witness ==
    \E f \in DOMAIN files :
        /\ FileDone(f) /\ IsBag(f)
        /\ \E d \in ImportsOf(f) : files[d].definitions # << >>
        /\ \E g \in DOMAIN files :
                /\ FileDone(g) /\ f \in ImportsOf(g)
                /\ \E i \in DOMAIN files[g].usages :
                        Analysed(g, i) /\ f \in ReachingBags(g, i)

\* every usage of f names a built-in command
OnlyBuiltinsUsed(f) ==
    /\ files[f].usages # << >>
    /\ \A i \in DOMAIN files[f].usages :
            Key(files[f].usages[i]) = [name |-> "new-item", kind |-> "Function"]

\* C18: a finished file without definitions whose usages are all built-in
\* commands has exactly one unused-import finding for each import that
\* defines a function or class.
C18_UsageOnlyFileIsChecked ==
    \A f \in DOMAIN files :
        (FileDone(f) /\ files[f].definitions = << >> /\ OnlyBuiltinsUsed(f)) =>
            \A d \in ImportsOf(f) :
                files[d].definitions # << >>
                    => Cardinality(FindingsAt("UnusedImports", f, d)) = 1

\* C18 witness: such a file has finished and has reported an import
C18_Witness ==
    \E f \in DOMAIN files :
        /\ FileDone(f) /\ files[f].definitions = << >> /\ OnlyBuiltinsUsed(f)
        /\ \E d \in ImportsOf(f) :
                /\ files[d].definitions # << >>
                /\ FindingsAt("UnusedImports", f, d) # {}

\* an analysed usage of file a resolves to a definition of c and is
\* attributed to the direct import f of a
UsesThrough(a, f, c) ==
    /\ f \in ImportsOf(a)
    /\ \E i \in DOMAIN files[a].usages :
            /\ Analysed(a, i) /\ IndirectlyResolved(a, i)
            /\ AttributedImport(a, i) = f
            /\ \E x \in ResolvedDefs(a, i) : x.origin = c

\* C19 as stated: a finished file F that imports C and has no usage
\* resolving to C reports exactly one unused-import finding for C, and a
\* file using C through F gets no unused-import finding for F.
C19_UnusedDecidedByOwnUsages ==
    \A f \in DOMAIN files :
        FileDone(f) =>
            \A c \in ImportsOf(f) :
                /\ ~ResolvesTo(f, c)
                        => Cardinality(FindingsAt("UnusedImports", f, c)) = 1
                /\ \A a \in DOMAIN files :
                        (FileDone(a) /\ UsesThrough(a, f, c))
                            => FindingsAt("UnusedImports", a, f) = {}

\* C19, amended: a finished file F that is no import bag, that imports a
\* file C defining a function or class, and none of whose usages resolves
\* to or through C, reports exactly one unused-import finding for C,
\* whatever the other files use; a file whose usage of C is attributed to
\* its import of F gets no unused-import finding for F.
C19_UnusedDecidedByOwnUsagesOfNonBag ==
    \A f \in DOMAIN files :
        FileDone(f) =>
            \A c \in ImportsOf(f) :
                /\ ( /\ ~IsBag(f)
                     /\ files[c].definitions # << >>
                     /\ ~ResolvesTo(f, c)
                     /\ ~ResolvesThrough(f, c) )
                        => Cardinality(FindingsAt("UnusedImports", f, c)) = 1
                /\ \A a \in DOMAIN files :
                        (FileDone(a) /\ UsesThrough(a, f, c))
                            => FindingsAt("UnusedImports", a, f) = {}

\* C19 witness: F has reported its import of C although the file A,
\* analysed before F, uses a definition of C through F
C19_Witness ==
    \E f \in DOMAIN files : \E c \in ImportsOf(f) : \E a \in DOMAIN files :
        /\ FileDone(f) /\ FileDone(a) /\ a < f
        /\ ~IsBag(f) /\ ~ResolvesTo(f, c)
        /\ UsesThrough(a, f, c)
        /\ Cardinality(FindingsAt("UnusedImports", f, c)) = 1
        /\ FindingsAt("UnusedImports", a, f) = {}

\* the lints reported at a usage
UsageLints == { "UnknownFunctions", "IndirectImports", "InvalidLetterCasing" }

\* C20: every unknown-function, indirectly-imported and
\* invalid-letter-casing finding is located at the first usage of its
\* case-insensitive item in its file, and a file has at most one finding of
\* each of these lints for each case-insensitive item.
C20_OneFindingPerItemAtFirstUsage ==
    \A j \in DOMAIN emitted :
        emitted[j].lint \in UsageLints =>
            /\ emitted[j].at \in DOMAIN files[emitted[j].file].usages
            /\ FirstUse(emitted[j].file, emitted[j].at) = emitted[j].at
            /\ \A k \in DOMAIN emitted :
                    ( /\ emitted[k].lint = emitted[j].lint
                      /\ emitted[k].file = emitted[j].file
                      /\ emitted[k].at = emitted[j].at ) => k = j

\* C20 witness: a finished file uses an unknown function twice in two
\* spellings; the first usage carries the finding, the second none
C20_Witness ==
    \E f \in DOMAIN files :
        /\ FileDone(f)
        /\ \E i, j \in DOMAIN files[f].usages :
                /\ i < j
                /\ Key(files[f].usages[i]) = Key(files[f].usages[j])
                /\ files[f].usages[i] # files[f].usages[j]
                /\ ~Visible(f, i) /\ ~Skipped(f, i)
                /\ Cardinality(FindingsAt("UnknownFunctions", f, i)) = 1
                /\ \A l \in UsageLints : FindingsAt(l, f, j) = {}

\* the item of usage i of f is defined, in the same spelling, in f or in a
\* direct import of f
DefinedNearbyAsSpelled(f, i) ==
    \E g \in {f} \cup ImportsOf(f) : \E k \in DOMAIN files[g].definitions :
        files[g].definitions[k] = files[f].usages[i]

\* some usage of f resolves to a definition whose origin is d
SomeUsageResolvesTo(f, d) ==
    \E i \in DOMAIN files[f].usages : \E x \in ResolvedDefs(f, i) : x.origin = d

\* C21 as stated: when every usage is defined in the same spelling in the
\* using file or a direct import and every import is the origin of a
\* definition that a usage of the importing file resolves to, a completed
\* run has no finding.
C21_CleanProjectHasNoFindings ==
    ( /\ result = Ok
      /\ \A f \in DOMAIN files :
            /\ \A i \in DOMAIN files[f].usages : DefinedNearbyAsSpelled(f, i)
            /\ \A d \in ImportsOf(f) : SomeUsageResolvesTo(f, d) )
        => emitted = << >>

\* usage i of f is analysed or repeats an analysed usage, and resolves, in
\* the same spelling, to a definition whose origin is f or a direct import
ResolvesNearbyAsSpelled(f, i) ==
    /\ ~Skipped(f, i)
    /\ ResolvedDefs(f, i) # {}
    /\ \A x \in ResolvedDefs(f, i) :
            /\ x.origin \in {f} \cup ImportsOf(f)
            /\ DefSpelling(x) = files[f].usages[i]

\* C21, amended: when no usage names a built-in or configured command,
\* every usage resolves in the same spelling to a definition whose origin
\* is the using file or a direct import, and every import is the origin of
\* a definition that a usage of the importing file resolves to, a completed
\* run has no finding.
C21_CleanAnalysedProjectHasNoFindings ==
    ( /\ result = Ok
      /\ \A f \in DOMAIN files :
            /\ \A i \in DOMAIN files[f].usages : ResolvesNearbyAsSpelled(f, i)
            /\ \A d \in ImportsOf(f) : ResolvesTo(f, d) )
        => emitted = << >>

\* C21 witness: a completed run without findings over such a project in
\* which a file uses a definition of an import
C21_Witness ==
    /\ result = Ok
    /\ emitted = << >>
    /\ \A f \in DOMAIN files :
            /\ \A i \in DOMAIN files[f].usages : ResolvesNearbyAsSpelled(f, i)
            /\ \A d \in ImportsOf(f) : ResolvesTo(f, d)
    /\ \E f \in DOMAIN files : \E d \in ImportsOf(f) : ResolvesTo(f, d)

IsClassUsage(f, i) == files[f].usages[i].kind = "Class"

\* C22: no unknown-function finding is located at a class usage; a class
\* usage without a class definition of that name in scope has no finding
\* at all; and a finished file has no unused-import finding for a direct
\* import that is the origin of the definition a class usage resolves to.
C22_ClassUsagesResolveWithoutUnknown ==
    \A f \in DOMAIN files : \A i \in DOMAIN files[f].usages :
        IsClassUsage(f, i) =>
            /\ FindingsAt("UnknownFunctions", f, i) = {}
            /\ ~Visible(f, i) => \A l \in UsageLints : FindingsAt(l, f, i) = {}
            /\ FileDone(f) =>
                \A x \in ResolvedDefs(f, i) :
                    x.origin \in ImportsOf(f)
                        => FindingsAt("UnusedImports", f, x.origin) = {}

\* C22 witness: a finished file whose class usage resolved to a class
\* definition of a direct import
C22_Witness ==
    \E f \in DOMAIN files : \E i \in DOMAIN files[f].usages :
        /\ IsClassUsage(f, i) /\ FileDone(f)
        /\ \E x \in ResolvedDefs(f, i) :
                /\ x.origin \in ImportsOf(f)
                /\ DefSpelling(x).kind = "Class"
                /\ FindingsAt("UnusedImports", f, x.origin) = {}

\* C22 witness, second case: a finished file whose class usage matches no
\* class definition in scope although a function of that name is in scope
C22_WitnessUnknownClass ==
    \E f \in DOMAIN files : \E i \in DOMAIN files[f].usages :
        /\ IsClassUsage(f, i) /\ FileDone(f) /\ ~Visible(f, i)
        /\ [name |-> "foo", kind |-> "Function"] \in KeysDefinedIn({f} \cup Reach(f))

\* file g has a usage spelled Set-StrictMode
CallsSetStrictMode(g) ==
    \E i \in DOMAIN files[g].usages : files[g].usages[i].name = "Set-StrictMode"

HasPseudoitem(g) ==
    \E k \in DOMAIN files[g].definitions :
        files[g].definitions[k].name = "!EnablesStrictMode"

ImportedByAnother(f) == \E g \in DOMAIN files : g # f /\ f \in files[g].imports

NoStrictModeFindingsOf(f) ==
    { j \in DOMAIN emitted :
        emitted[j].lint = "NoStrictMode" /\ emitted[j].file = f }

\* C23: a file carries the pseudoitem iff it has a usage named
\* Set-StrictMode; once the strict-mode analysis has run, a file has one
\* no-strict-mode finding if no other file imports it and neither it nor
\* any file it reaches through imports calls Set-StrictMode, and none
\* otherwise; before that no such finding exists.
C23_NoStrictModeForBareRoots ==
    /\ \A f \in DOMAIN files : HasPseudoitem(f) <=> CallsSetStrictMode(f)
    /\ pc # "strict" => \A f \in DOMAIN files : NoStrictModeFindingsOf(f) = {}
    /\ pc = "strict" =>
            \A f \in DOMAIN files :
                Cardinality(NoStrictModeFindingsOf(f)) =
                    IF /\ ~ImportedByAnother(f)
                       /\ \A g \in {f} \cup Reach(f) : ~CallsSetStrictMode(g)
                    THEN 1 ELSE 0

\* C23 witness: the analysis has run; one root is flagged and another
\* root, which only imports a file calling Set-StrictMode, is not
C23_Witness ==
    /\ pc = "strict"
    /\ \E f \in DOMAIN files : NoStrictModeFindingsOf(f) # {}
    /\ \E f \in DOMAIN files :
            /\ ~ImportedByAnother(f) /\ ~CallsSetStrictMode(f)
            /\ \E g \in Reach(f) : CallsSetStrictMode(g)
            /\ NoStrictModeFindingsOf(f) = {}

\* ====================================================================
\* Stage 1: groups
\* ====================================================================
\* the parse of the text has returned
ParseReturned == lpc = "done"

\* the closing delimiter that belongs to an opening one, read off the chars
Matching(c) == CASE c = "(" -> ")" [] c = "{" -> "}" [] c = "[" -> "]"

\* the text holds no string and no comment: no quote and no '#'
PlainText == \A i \in DOMAIN source : source[i] \notin Quotes \cup {"#"}

\* a scan of the delimiters of a plain text from char i on, `open` being
\* the closings still awaited, innermost last: whether the nesting is
\* proper, and if it is not the offset of the first delimiter that breaks
\* it, or the length of the text if the text ends inside a group
RECURSIVE Nesting(_, _)
Nesting(i, open) ==
    IF i > Len(source)
    THEN [proper |-> open = << >>, at |-> Len(source)]
    ELSE IF source[i] \in Openings
    THEN Nesting(i + 1, Append(open, Matching(source[i])))
    ELSE IF source[i] \in Closings
    THEN IF open # << >> /\ open[Len(open)] = source[i]
         THEN Nesting(i + 1, SubSeq(open, 1, Len(open) - 1))
         ELSE [proper |-> FALSE, at |-> i - 1]
    ELSE Nesting(i + 1, open)

\* every group of the stream spans from an opening delimiter to the closing
\* one that matches it, no delimiter is left as a symbol, and the same holds
\* inside the groups and the strings
RECURSIVE GroupsMatch(_)
GroupsMatch(tts) ==
    \A i \in DOMAIN tts :
        LET tt == tts[i]
        IN  /\ tt.type = "Symbol" => tt.symbol \notin Openings \cup Closings
            /\ tt.type = "Group" =>
                    /\ CharAt(tt.start) \in Openings
                    /\ CharAt(tt.end - 1) = Matching(CharAt(tt.start))
                    /\ \A j \in DOMAIN tt.interior :
                            /\ tt.start < tt.interior[j].start
                            /\ tt.interior[j].end < tt.end
            /\ GroupsMatch(tt.interior)
            /\ GroupsMatch(tt.subtrees)

\* C24: a parse that returns Ok has every group closed by its own matching
\* delimiter, properly nested; a parse that returns a group error carries
\* the offset of the offending closing delimiter, or the end of the text;
\* and on a text without strings and comments the parse returns Ok exactly
\* if the delimiters nest properly, and otherwise an error at the first
\* delimiter that breaks the nesting or at the end of the text.
C24_GroupsMustNest ==
    ParseReturned =>
        /\ lresult.kind = "Ok" => GroupsMatch(lresult.tts)
        /\ lresult.what = "Unexpected closing" =>
                CharAt(lresult.where) \in Closings
        /\ lresult.what = "Expected closing, but found another" =>
                CharAt(lresult.where) \in Closings
        /\ lresult.what = "Expected closing, but found end of file" =>
                lresult.where = Len(source)
        /\ PlainText =>
                /\ lresult.kind = "Ok" <=> Nesting(1, << >>).proper
                /\ lresult.kind = "Err" =>
                        /\ lresult.where = Nesting(1, << >>).at
                        /\ lresult.what \in
                                { "Unexpected closing",
                                  "Expected closing, but found another",
                                  "Expected closing, but found end of file" }

\* C24 witness: a group nested in another has been closed, and the outer
\* one meets the closing delimiter of another kind at offset 3
C24_Witness ==
    /\ ParseReturned
    /\ PlainText
    /\ lresult.what = "Expected closing, but found another"
    /\ lresult.where = 3
    /\ source[2] \in Openings

\* C24, further cases reached: a closing delimiter with no open group, the
\* end of the text inside a group, and nested groups of three kinds
C24_WitnessUnexpected ==
    ParseReturned /\ lresult.what = "Unexpected closing" /\ lresult.where = 2

C24_WitnessEndOfFile ==
    /\ ParseReturned
    /\ lresult.what = "Expected closing, but found end of file"
    /\ Len(source) = MaxSource

C24_WitnessNested ==
    /\ ParseReturned
    /\ lresult.kind = "Ok"
    /\ \E i \in DOMAIN lresult.tts :
            /\ lresult.tts[i].delimiter = "Bracket"
            /\ lresult.tts[i].interior # << >>
            /\ lresult.tts[i].interior[1].delimiter = "Brace"

\* ====================================================================
\* Stage 1: spans
\* ====================================================================
\* the comments discarded between the token trees of the top-level stream
TopComments == { i \in DOMAIN comments : comments[i].depth = 1 }

\* how many token spans of the top-level stream and how many of its
\* discarded comment ranges hold the byte at offset b
Covering(b) ==
    Cardinality({ i \in DOMAIN lresult.tts :
                    lresult.tts[i].start <= b /\ b < lresult.tts[i].end })
    + Cardinality({ i \in TopComments :
                    comments[i].start <= b /\ b < comments[i].end })

Bytes == 0 .. Len(source) - 1

\* the spans of a stream follow each other without overlap, and so do those
\* of every stream nested in it
RECURSIVE Disjoint(_)
Disjoint(tts) ==
    /\ \A i \in DOMAIN tts :
            /\ tts[i].start <= tts[i].end
            /\ i < Len(tts) => tts[i].end <= tts[i + 1].start
            /\ Disjoint(tts[i].interior)
            /\ Disjoint(tts[i].subtrees)

\* C25 as stated: after a parse that returned Ok every byte of the text lies
\* in exactly one token span of the top-level stream or discarded comment
\* range, and the spans of one stream never overlap.
C25_SpansAndCommentsCoverExactlyOnce ==
    ParseReturned /\ lresult.kind = "Ok" =>
        /\ \A b \in Bytes : Covering(b) = 1
        /\ Disjoint(lresult.tts)

\* C25: after a parse that returned Ok every byte of the text lies in at
\* most one token span of the top-level stream or discarded comment range,
\* the bytes in none of them are whitespace, and the spans of one stream
\* never overlap.
C25_SpansAndCommentsCoverAllButWhitespace ==
    ParseReturned /\ lresult.kind = "Ok" =>
        /\ \A b \in Bytes : Covering(b) <= 1
        /\ \A b \in Bytes : Covering(b) = 0 => CharAt(b) \in Blanks
        /\ Disjoint(lresult.tts)

\* C25 witness: a text with a blank, a comment and a token tree that is
\* no symbol has been parsed
C25_Witness ==
    /\ ParseReturned
    /\ lresult.kind = "Ok"
    /\ TopComments # {}
    /\ \E b \in Bytes : Covering(b) = 0
    /\ \E i \in DOMAIN lresult.tts : lresult.tts[i].type # "Symbol"

\* ====================================================================
\* Stage 1: comments
\* ====================================================================
LineComments == { i \in DOMAIN comments : comments[i].kind = "line" }

LongComments == { i \in DOMAIN comments : comments[i].kind = "long" }

\* some token tree of the stream, or of a stream nested in it, holds the
\* byte at offset b without being a group or a string around it
RECURSIVE TokenAt(_, _)
TokenAt(tts, b) ==
    \E i \in DOMAIN tts :
        \/ /\ tts[i].type \in {"Word", "Symbol", "Number"}
           /\ tts[i].start <= b /\ b < tts[i].end
        \/ TokenAt(tts[i].interior, b)
        \/ TokenAt(tts[i].subtrees, b)

\* the stream, or a stream nested in it, holds the newline at offset b as
\* a Symbol
RECURSIVE NewlineSymbolAt(_, _)
NewlineSymbolAt(tts, b) ==
    \E i \in DOMAIN tts :
        \/ /\ tts[i].type = "Symbol" /\ tts[i].symbol = "\n"
           /\ tts[i].start = b
        \/ NewlineSymbolAt(tts[i].interior, b)
        \/ NewlineSymbolAt(tts[i].subtrees, b)

\* the text holds no string and no block comment: no quote, no '@', no '<'
OnlyLineComments ==
    \A i \in DOMAIN source : source[i] \notin Quotes \cup {"@", "<"}

\* read off the text: a '#' stands before offset b, or at it, on the line
\* of b
BehindHash(b) ==
    \E p \in 0 .. b :
        /\ CharAt(p) = "#"
        /\ \A q \in p .. b : CharAt(q) # "\n"

\* C26: a line comment is skipped from its '#' up to, not including, the
\* newline that ends its line; after a parse that returned Ok no token lies
\* in the skipped range and the newline behind it is a Symbol of the
\* stream.  On a text without strings and block comments, read off the
\* text: no byte behind a '#' on its line lies in a token, every other
\* byte that is not a blank or a delimiter does, and every newline is a
\* Symbol.
C26_LineCommentDiscardedNewlineKept ==
    /\ \A i \in LineComments :
            /\ CharAt(comments[i].start) = "#"
            /\ \A b \in comments[i].start .. comments[i].end - 1 :
                    CharAt(b) # "\n"
            /\ CharAt(comments[i].end) = "\n"
    /\ ParseReturned /\ lresult.kind = "Ok" =>
            /\ \A i \in LineComments :
                    /\ \A b \in comments[i].start .. comments[i].end - 1 :
                            ~TokenAt(lresult.tts, b)
                    /\ NewlineSymbolAt(lresult.tts, comments[i].end)
            /\ OnlyLineComments =>
                    \A b \in Bytes :
                        /\ BehindHash(b) => ~TokenAt(lresult.tts, b)
                        /\ CharAt(b) = "\n" => NewlineSymbolAt(lresult.tts, b)
                        /\ ~BehindHash(b) =>
                                \/ TokenAt(lresult.tts, b)
                                \/ CharAt(b) \in Blanks \cup Openings
                                                \cup Closings

\* C26 witness: a comment followed by a newline has been discarded and the
\* newline is a Symbol between two Words
C26_Witness ==
    /\ ParseReturned
    /\ lresult.kind = "Ok"
    /\ LineComments # {}
    /\ Len(lresult.tts) = 3
    /\ lresult.tts[1].type = "Word"
    /\ lresult.tts[2].symbol = "\n"
    /\ lresult.tts[3].type = "Word"

\* the offsets from p on at which the text reads #>
Closes(p) ==
    { q \in p .. Len(source) - 2 : CharAt(q) = "#" /\ CharAt(q + 1) = ">" }

\* C27: a block comment runs from its <# to the end of the first #> behind
\* it, and the parse fails on it, with "Unclosed long comment", only if no
\* #> stands behind the <#.
C27_LongCommentEndsAtFirstClose ==
    /\ \A i \in LongComments :
            /\ CharAt(comments[i].start) = "<"
            /\ CharAt(comments[i].start + 1) = "#"
            /\ Closes(comments[i].start + 2) # {}
            /\ comments[i].end = Min(Closes(comments[i].start + 2)) + 2
    /\ lresult.what = "Unclosed long comment" => Closes(cstart + 2) = {}

\* C27, the cases that work: a comment closed by the first of two #>, and
\* a comment without any #>
C27_WitnessClosed ==
    /\ \E i \in LongComments :
            /\ Cardinality(Closes(comments[i].start + 2)) = 2
            /\ comments[i].end = Min(Closes(comments[i].start + 2)) + 2

C27_WitnessUnclosed ==
    /\ lresult.what = "Unclosed long comment"
    /\ Closes(cstart + 2) = {}
    /\ Len(source) > 2

\* C27, the case that does not: the text <###> is an unclosed comment
C27_WitnessMissedClose ==
    /\ source = << "<", "#", "#", "#", ">" >>
    /\ lresult.what = "Unclosed long comment"

\* ====================================================================
\* Stage 1: strings
\* ====================================================================
\* the String token trees of the top-level stream of a parse that returned Ok
TopStrings ==
    IF ParseReturned /\ lresult.kind = "Ok"
    THEN { i \in DOMAIN lresult.tts : lresult.tts[i].type = "String" }
    ELSE {}

IsHereString(tt) == CharAt(tt.start) = "@"

\* the offset of the first char behind the opening quote
BodyStart(tt) == IF IsHereString(tt) THEN tt.start + 2 ELSE tt.start + 1

\* the quote the string is written in
QuoteOf(tt) == CharAt(BodyStart(tt) - 1)

\* the offset p is in the text of the string itself, not in an
\* interpolated word or group
InText(tt, p) ==
    /\ BodyStart(tt) <= p
    /\ p < tt.end
    /\ \A j \in DOMAIN tt.subtrees :
            p < tt.subtrees[j].start \/ tt.subtrees[j].end <= p

\* a backtick that is not escaped by a backtick before it
FreeBacktick(tt, p) ==
    /\ InText(tt, p)
    /\ CharAt(p) = Backtick
    /\ p = BodyStart(tt) \/ CharAt(p - 1) # Backtick

\* the char behind the backtick at p neither ends the string nor starts an
\* interpolation
EscapesNext(tt, p) ==
    /\ tt.end > p + 2
    /\ \A j \in DOMAIN tt.subtrees : tt.subtrees[j].start # p + 2

\* C28 in double-quoted strings that are not here-strings
C28_BacktickEscapesInStrings ==
    \A i \in TopStrings :
        LET tt == lresult.tts[i]
        IN  QuoteOf(tt) = Quote /\ ~IsHereString(tt) =>
                \A p \in Bytes : FreeBacktick(tt, p) => EscapesNext(tt, p)

\* C28 for doubled quotes: in a string that is no here-string two quotes of
\* its own kind in a row do not end it
C28_DoubledQuoteIsLiteral ==
    \A i \in TopStrings :
        LET tt == lresult.tts[i]
            b  == BodyStart(tt)
        IN  /\ ~IsHereString(tt)
            /\ CharAt(b) = QuoteOf(tt)
            /\ CharAt(b + 1) = QuoteOf(tt)
            => tt.end > b + 2

\* C28: in a double-quoted string and in a double-quoted here-string the
\* char behind a backtick neither ends the string nor starts an
\* interpolation, and in a string that is no here-string a doubled quote
\* does not end the string.
C28_BacktickEscapesAndDoubledQuoteIsLiteral ==
    /\ \A i \in TopStrings :
            LET tt == lresult.tts[i]
            IN  QuoteOf(tt) = Quote =>
                    \A p \in Bytes : FreeBacktick(tt, p) => EscapesNext(tt, p)
    /\ C28_DoubledQuoteIsLiteral

\* C28, the cases that work: a double-quoted string in which a backtick
\* stands before a '$' and a letter, and before a quote; a doubled quote
C28_WitnessEscapedDollar ==
    \E i \in TopStrings :
        LET tt == lresult.tts[i]
        IN  /\ QuoteOf(tt) = Quote /\ ~IsHereString(tt)
            /\ \E p \in Bytes :
                    /\ FreeBacktick(tt, p)
                    /\ CharAt(p + 1) = "$"
                    /\ can_start_word(CharAt(p + 2))
            /\ tt.subtrees = << >>

C28_WitnessEscapedQuote ==
    \E i \in TopStrings :
        LET tt == lresult.tts[i]
        IN  /\ QuoteOf(tt) = Quote /\ ~IsHereString(tt)
            /\ \E p \in Bytes : FreeBacktick(tt, p) /\ CharAt(p + 1) = Quote

C28_WitnessDoubledQuote ==
    \E i \in TopStrings :
        LET tt == lresult.tts[i]
        IN  /\ ~IsHereString(tt)
            /\ CharAt(BodyStart(tt)) = QuoteOf(tt)
            /\ CharAt(BodyStart(tt) + 1) = QuoteOf(tt)

\* C28, the case that does not: a double-quoted here-string in which the
\* word behind a backtick and a '$' is interpolated
C28_WitnessHereStringInterpolates ==
    \E i \in TopStrings :
        LET tt == lresult.tts[i]
        IN  /\ QuoteOf(tt) = Quote /\ IsHereString(tt)
            /\ \E p \in Bytes :
                    /\ FreeBacktick(tt, p)
                    /\ \E j \in DOMAIN tt.subtrees :
                            tt.subtrees[j].start = p + 2

\* ====================================================================
\* Function definitions and usages of a stream
\* ====================================================================
\* the walk through the stream is over
Gathered == lpc = "gather" /\ iter > Len(stream)

Cmdlets == { i \in DOMAIN stream : stream[i].type = "Cmdlet" }

\* the name of token tree i, read off the text
NameAt(i) == SubSeq(source, stream[i].start + 1, stream[i].end)

\* token tree i was gathered as the definition, as the usage, of a function
\* of its name
IsDefinition(i) ==
    \E j \in DOMAIN definitions :
        /\ definitions[j].start = stream[i].start
        /\ definitions[j].item = [name |-> NameAt(i), kind |-> "Function"]

IsUsage(i) ==
    \E j \in DOMAIN usages :
        /\ usages[j].start = stream[i].start
        /\ usages[j].item = [name |-> NameAt(i), kind |-> "Function"]

\* the name is one of the control-flow keywords, whatever its letter case
ControlFlowKeyword(name) ==
    \E k \in Keywords :
        /\ Len(k) = Len(name)
        /\ \A c \in DOMAIN k : Lower(name[c]) = k[c]

EndsInDotExe(name) ==
    /\ Len(name) >= 4
    /\ name[Len(name) - 3] = "."
    /\ name[Len(name) - 2] = "e"
    /\ name[Len(name) - 1] = "x"
    /\ name[Len(name)] = "e"

\* C30: once a stream has been walked through, a Cmdlet is a function
\* definition exactly if the token tree right before it in the stream is
\* the Function keyword; any other Cmdlet is a function usage exactly if
\* its name is no control-flow keyword, whatever its letter case, and does
\* not end in .exe; and nothing else is a definition or a usage.
C30_CmdletIsDefinitionAfterFunctionKeyword ==
    Gathered =>
        /\ \A i \in Cmdlets :
                IsDefinition(i) <=>
                    (i > 1 /\ stream[i - 1].type = "FunctionKeyword")
        /\ \A i \in Cmdlets :
                IsUsage(i) <=>
                    /\ ~IsDefinition(i)
                    /\ ~ControlFlowKeyword(NameAt(i))
                    /\ ~EndsInDotExe(NameAt(i))
        /\ \A j \in DOMAIN definitions :
                \E i \in Cmdlets : stream[i].start = definitions[j].start
        /\ \A j \in DOMAIN usages :
                \E i \in Cmdlets : stream[i].start = usages[j].start
        /\ Len(definitions) + Len(usages) <= Cardinality(Cmdlets)

\* C30 witness: the stream `function Foo If` has been walked through: Foo
\* is a definition and If, a keyword in another letter case, is neither a
\* definition nor a usage
C30_Witness ==
    /\ Gathered
    /\ Len(stream) = 3
    /\ stream[1].type = "FunctionKeyword"
    /\ IsDefinition(2)
    /\ 3 \in Cmdlets
    /\ NameAt(3) = << "I", "f" >>
    /\ ~IsDefinition(3)
    /\ ~IsUsage(3)

\* C30, further cases reached: a keyword right behind the Function keyword
\* is a definition; of a.exe, a.EXE and exe only the first is no usage
C30_WitnessKeywordDefined ==
    /\ Gathered
    /\ \E i \in Cmdlets : IsDefinition(i) /\ ControlFlowKeyword(NameAt(i))

C30_WitnessExe ==
    /\ Gathered
    /\ Len(stream) = 3
    /\ NameAt(1) = << "a", ".", "e", "x", "e" >> /\ ~IsUsage(1)
    /\ NameAt(2) = << "a", ".", "E", "X", "E" >> /\ IsUsage(2)
    /\ NameAt(3) = << "e", "x", "e" >> /\ IsUsage(3)

\* ------------------------------------------------- a file that does not parse
\* a stage has failed: Stage 1 returned an error, or transform does on the
\* stream Stage 1 returned
ParseFailed ==
    \/ lresult.kind = "Err"
    \/ lresult.kind = "Ok" /\ from_stage1(lresult.tts).kind = "Err"

\* the error of the stage that failed
ParseError ==
    IF lresult.kind = "Err" THEN lresult ELSE from_stage1(lresult.tts)

V2Returned == lpc \in { "v2", "gather", "file", "preprocessed" }

FileReturned == lpc \in { "file", "preprocessed" }

Preprocessed == lpc = "preprocessed"

\* C29: once the stages have returned, v2::parse returns either a stream or
\* an error with its location, and an error exactly when Stage 1 or Stage 2
\* failed; then no stream is walked and nothing is gathered, syntax::parse
\* returns that error and no definitions or usages, and parse_and_preprocess
\* emits exactly one SyntaxErrors finding at the location of the error and
\* returns SyntaxErrors, which holds no Parsed.  A file that parses gets no
\* such finding and is Valid.
C29_FailureIsOneSyntaxErrorAndNoParsed ==
    /\ V2Returned =>
        /\ tts2.kind \in { "Ok", "Err" }
        /\ tts2.kind = "Err" <=> ParseFailed
        /\ ParseFailed =>
            /\ tts2 = SyntaxError(ParseError.what, ParseError.where)
            /\ lpc # "gather"
            /\ stream = << >> /\ streams = << >>
            /\ definitions = << >> /\ usages = << >>
    /\ FileReturned =>
        /\ syntax_file.kind = "Err" <=> ParseFailed
        /\ ParseFailed =>
            /\ syntax_file.where = ParseError.where
            /\ syntax_file.definitions = << >>
            /\ syntax_file.usages = << >>
    /\ Preprocessed =>
        /\ ParseFailed =>
            /\ output.kind = "SyntaxErrors"
            /\ output.definitions = << >> /\ output.usages = << >>
            /\ Len(emitted) = 1
            /\ emitted[1].lint = "SyntaxErrors"
            /\ emitted[1].at = ParseError.where
            /\ emitted[1].what = ParseError.what
        /\ ~ParseFailed =>
            /\ output.kind = "Valid"
            /\ emitted = << >>

\* a text with an invalid backtick escape has been preprocessed
C29_Witness ==
    /\ Preprocessed
    /\ lresult.kind = "Ok"
    /\ tts2.what = "Unknown escape"
    /\ output.kind = "SyntaxErrors"
    /\ Len(emitted) = 1

\* the same for an unterminated string, an unbalanced group and an
\* unterminated block comment
C29_WitnessString ==
    Preprocessed /\ lresult.what = "Unclosed string" /\ Len(emitted) = 1

C29_WitnessGroup ==
    /\ Preprocessed
    /\ lresult.what = "Expected closing, but found end of file"
    /\ Len(emitted) = 1

C29_WitnessComment ==
    Preprocessed /\ lresult.what = "Unclosed long comment" /\ Len(emitted) = 1

\* a text that parses has been preprocessed, with the definition in it
C29_WitnessValid ==
    /\ Preprocessed
    /\ output.kind = "Valid"
    /\ output.definitions # << >>
    /\ emitted = << >>

\* ------------------------------------------------ Stage 1: termination
\* C31: Stage-1 parsing of a finite text terminates: as long as the parse
\* has not returned a stream or an error, one of its loops makes a step.
\* The text of SpecParse is finite and every step but the return moves on
\* in it or returns from a call, so the parse fails to terminate exactly
\* where it has not returned and no step is left.
C31_Stage1Terminates == ParseReturned \/ ENABLED NextParse

\* C31, the case the claim names: the text has ended inside a line comment
\* with no newline behind it
C31_WitnessCommentAtEnd ==
    /\ lpc = "skip_to_newline"
    /\ peek_char = EOF
    /\ ~ENABLED NextParse

\* C31, reached as well: a line comment that a newline ends is left, and
\* the parse returns
C31_WitnessCommentEnded ==
    /\ ParseReturned
    /\ lresult.kind = "Ok"
    /\ \E i \in DOMAIN comments : comments[i].kind = "line"

\* C31, what does hold: a parse that has not returned makes a step unless
\* the text has ended inside a line comment
C31_TerminatesOutsideCommentAtEnd ==
    \/ ParseReturned
    \/ ENABLED NextParse
    \/ lpc = "skip_to_newline" /\ peek_char = EOF

\* ------------------------------------------------ the states of the cache
\* a call of get_scope for the file is in flight
OnStack(f) == \E i \in DOMAIN stack : stack[i].file = f

\* an entry of the cache stays as it is or moves one state forward
MovesForward(old, new) ==
    \/ new = old
    \/ old = Unvisited /\ new = Current
    \/ old = Current /\ new.tag = "Resolved"

C32_WitnessInProgress ==
    /\ Len(stack) = 2
    /\ scopes[stack[1].file] = Current
    /\ scopes[stack[2].file] = Current
    /\ \E f \in DOMAIN scopes : scopes[f].tag = "Resolved"

\* ------------------------------------------ the imports behind an Indirect
\* analyze is at a usage that is not skipped and whose item the scope of the
\* file holds with an origin that is neither the file nor a direct import
AtIndirectUsage ==
    /\ pc = "usages"
    /\ ui <= Len(files[path].usages)
    /\ LET usage == files[path].usages[ui] IN
       /\ Key(usage) \notin BUILTINS \cup custom_cmdlets \cup already_analyzed
       /\ Key(usage) \in DOMAIN scope.items
       /\ scope.items[Key(usage)].origin \notin {path} \cup files[path].imports

\* C33: whenever analyze is about to classify a usage of file F as
\* Indirect, every direct import of F has a Resolved entry in the cache and
\* the cached scope of at least one of them holds the used item, and the
\* analysis never panics: get_cached_scope and imported_through[0] succeed.
C33_IndirectHasCachedReachingImport ==
    /\ pc # "panic"
    /\ AtIndirectUsage =>
        /\ \A d \in files[path].imports : scopes[d].tag = "Resolved"
        /\ \E d \in files[path].imports :
                /\ scopes[d].tag = "Resolved"
                /\ Key(files[path].usages[ui]) \in DOMAIN scopes[d].scope.items

\* C33 witness: a usage was classified Indirect and attributed to the first
\* direct import whose cached scope holds the item, which is not the origin
C33_Witness ==
    \E j \in DOMAIN emitted :
        /\ emitted[j].lint = "IndirectImports"
        /\ emitted[j].notes[1] \in files[emitted[j].file].imports
        /\ emitted[j].notes[1] # emitted[j].notes[2]
        /\ scopes[emitted[j].notes[1]].tag = "Resolved"
        /\ emitted[j].notes[1] \in used_dependencies

\* C33, reached in the four-file projects of SpecDeep: analyze stands at an
\* Indirect usage of a file with two direct imports, one of which does not
\* reach the item
C33_WitnessAtUsage ==
    /\ AtIndirectUsage
    /\ Cardinality(files[path].imports) = 2
    /\ \E d \in files[path].imports :
            Key(files[path].usages[ui]) \notin DOMAIN scopes[d].scope.items

\* ------------------------------------------- usages of command names
\* the name of the usage is, ignoring case, that of a built-in or of a
\* configured custom command, whatever the kind of the usage
NamesCommand(u) ==
    [name |-> UniCase(u.name), kind |-> "Function"] \in BUILTINS \cup custom_cmdlets

\* analyze stands before a usage of the current file
AtUsage == pc = "usages" /\ ui <= Len(files[path].usages)

\* the usages of f that name an item defined in d or in a file d reaches
UsagesThrough(f, d) ==
    { i \in DOMAIN files[f].usages :
        Key(files[f].usages[i]) \in KeysDefinedIn({d} \cup Reach(d)) }

\* C34 as stated: the turn of the usage loop at a usage whose name is that
\* of a built-in or custom command emits nothing and records no import as
\* used, and a finished file reports as unused every import whose items it
\* uses, and uses only, under such names.
C34_CommandNamedUsageIsSkipped ==
    /\ [][(AtUsage /\ NamesCommand(files[path].usages[ui]))
            => (used_dependencies' = used_dependencies /\ emitted' = emitted)]_vars
    /\ [](\A f \in DOMAIN files : \A d \in ImportsOf(f) :
            ( /\ FileDone(f)
              /\ UsagesThrough(f, d) # {}
              /\ \A i \in UsagesThrough(f, d) : NamesCommand(files[f].usages[i]) )
            => FindingsAt("UnusedImports", f, d) # {})

\* C34, amended: the turn of the usage loop at a function usage whose name
\* is that of a built-in or custom command emits nothing and records no
\* import as used; and a finished file that is no import bag reports as
\* unused, once, every import that defines a function or class and whose
\* items (its own and those it reaches) the file uses under such function
\* names only.
C34_CommandUsageIsSkipped ==
    /\ [][(AtUsage /\ Key(files[path].usages[ui]) \in BUILTINS \cup custom_cmdlets)
            => (used_dependencies' = used_dependencies /\ emitted' = emitted)]_vars
    /\ [](\A f \in DOMAIN files : \A d \in ImportsOf(f) :
            ( /\ FileDone(f) /\ ~IsBag(f)
              /\ files[d].definitions # << >>
              /\ \A i \in UsagesThrough(f, d) :
                    Key(files[f].usages[i]) \in BUILTINS \cup custom_cmdlets )
            => Cardinality(FindingsAt("UnusedImports", f, d)) = 1)

\* C34 witness: FOO is a custom command, a finished file uses the function
\* Foo that its import defines, the usage left no finding and the import is
\* reported unused
C34_Witness ==
    \E f \in DOMAIN files : \E d \in ImportsOf(f) :
        /\ FileDone(f)
        /\ \E i \in UsagesThrough(f, d) :
                /\ files[f].usages[i].kind = "Function"
                /\ Key(files[f].usages[i]) \in custom_cmdlets
                /\ \A l \in UsageLints : FindingsAt(l, f, i) = {}
        /\ \A i \in UsagesThrough(f, d) : Key(files[f].usages[i]) \in custom_cmdlets
        /\ files[d].definitions # << >>
        /\ Cardinality(FindingsAt("UnusedImports", f, d)) = 1

\* C34, what the statement overlooks: FOO is a custom command and a class
\* usage of that name is resolved all the same, so that its import is used
C34_WitnessClassUsage ==
    \E f \in DOMAIN files : \E d \in ImportsOf(f) :
        /\ FileDone(f)
        /\ \E i \in UsagesThrough(f, d) :
                /\ files[f].usages[i].kind = "Class"
                /\ NamesCommand(files[f].usages[i])
        /\ d \in used_dependencies
        /\ FindingsAt("UnusedImports", f, d) = {}

\* ====================================================================
\* The Muncher (src/src/syntax/v2/muncher.rs)
\* ====================================================================
\* Location.col is a u16.  Location.byte and Location.line are u32 and
\* cannot overflow: Muncher::new asserts that the length of the text fits
\* in a u32.
ColBits == 16

\* a char that takes two bytes in UTF-8
Wide == "wide"

\* the chars of the texts the Muncher is followed through
MunchChars == { "a", Wide, "\r", "\n" }

\* char::len_utf8
len_utf8(c) == IF c = Wide THEN 2 ELSE 1

\* str::len: the bytes of a text
RECURSIVE str_len(_)
str_len(s) == IF s = << >> THEN 0 ELSE len_utf8(Head(s)) + str_len(Tail(s))

Location(byte, line, col) == [byte |-> byte, line |-> line, col |-> col]

\* Location::start
Location_start == Location(0, 1, 1)

Span(start, end) == [start |-> start, end |-> end]

\* Option::Some of a char with its Span
SomeChar(c, span) == [tag |-> "Some", c |-> c, span |-> span]

\* peek_char, `loop { match chars.next() .. }`: the iterator after every
\* `\r` it meets was passed over, standing before the char `c` or at the end
RECURSIVE skip_carriage_returns(_)
skip_carriage_returns(chars) ==
    IF chars = << >> THEN chars
    ELSE IF Head(chars) = "\r" THEN skip_carriage_returns(Tail(chars))
    ELSE chars

\* the call went through, leaving the Muncher m and returning ret
Returned(m, ret) == [panic |-> FALSE, muncher |-> m, ret |-> ret]

\* `attempt to add with overflow`, in a build with overflow checks
Panicked(m) == [panic |-> TRUE, muncher |-> m, ret |-> NoChar]

\* Faulty variant: the char looked at is taken out of the stream and not
\* kept in peeked_char
peek_char_Consuming(m, overflow_checks) ==
    IF m.peeked_char # NoChar THEN Returned(m, m.peeked_char)
    ELSE LET chars == skip_carriage_returns(m.rest_of_stream) IN
         IF chars = << >> THEN Returned(m, NoChar)
         ELSE LET c            == Head(chars)
                  old_location == m.stream_location
                  new_location ==
                      Location(old_location.byte + str_len(m.rest_of_stream)
                                    - str_len(Tail(chars)),
                               IF c = "\n" THEN old_location.line + 1
                                           ELSE old_location.line,
                               IF c = "\n" THEN 1
                                           ELSE (old_location.col + 1) % 2^ColBits)
              IN  IF c # "\n" /\ old_location.col + 1 >= 2^ColBits /\ overflow_checks
                  THEN Panicked(m)
                  ELSE Returned([peeked_char     |-> NoChar,
                                 stream_location |-> new_location,
                                 rest_of_stream  |-> Tail(chars)],
                                SomeChar(c, Span(old_location, new_location)))

\* Faulty variant: a `\r` is returned like any other char
peek_char_KeepsCarriageReturns(m, overflow_checks) ==
    IF m.peeked_char # NoChar THEN Returned(m, m.peeked_char)
    ELSE LET chars == m.rest_of_stream IN
         IF chars = << >> THEN Returned(m, NoChar)
         ELSE LET c            == Head(chars)
                  old_location == m.stream_location
                  new_location ==
                      Location(old_location.byte + str_len(m.rest_of_stream)
                                    - str_len(Tail(chars)),
                               IF c = "\n" THEN old_location.line + 1
                                           ELSE old_location.line,
                               IF c = "\n" THEN 1
                                           ELSE (old_location.col + 1) % 2^ColBits)
                  peeked       == SomeChar(c, Span(old_location, new_location))
              IN  IF c # "\n" /\ old_location.col + 1 >= 2^ColBits /\ overflow_checks
                  THEN Panicked(m)
                  ELSE Returned([peeked_char     |-> peeked,
                                 stream_location |-> new_location,
                                 rest_of_stream  |-> Tail(chars)],
                                peeked)

\* Faulty variant: the column goes on counting behind a newline
peek_char_ColumnRunsOn(m, overflow_checks) ==
    IF m.peeked_char # NoChar THEN Returned(m, m.peeked_char)
    ELSE LET chars == skip_carriage_returns(m.rest_of_stream) IN
         IF chars = << >> THEN Returned(m, NoChar)
         ELSE LET c            == Head(chars)
                  old_location == m.stream_location
                  new_location ==
                      Location(old_location.byte + str_len(m.rest_of_stream)
                                    - str_len(Tail(chars)),
                               IF c = "\n" THEN old_location.line + 1
                                           ELSE old_location.line,
                               (old_location.col + 1) % 2^ColBits)
                  peeked       == SomeChar(c, Span(old_location, new_location))
              IN  IF old_location.col + 1 >= 2^ColBits /\ overflow_checks
                  THEN Panicked(m)
                  ELSE Returned([peeked_char     |-> peeked,
                                 stream_location |-> new_location,
                                 rest_of_stream  |-> Tail(chars)],
                                peeked)

\* Muncher::peek_char, returning the peeked char with the Span kept in
\* peeked_char (the caller sees the char only).  `col += 1` on a u16 panics
\* in a build with overflow checks and wraps in one without.
peek_char_of(m, overflow_checks) ==
    IF m.peeked_char # NoChar THEN Returned(m, m.peeked_char)
    ELSE LET chars == skip_carriage_returns(m.rest_of_stream) IN
         IF chars = << >> THEN Returned(m, NoChar)
         ELSE LET c            == Head(chars)
                  old_location == m.stream_location
                  new_location ==
                      Location(old_location.byte + str_len(m.rest_of_stream)
                                    - str_len(Tail(chars)),
                               IF c = "\n" THEN old_location.line + 1
                                           ELSE old_location.line,
                               IF c = "\n" THEN 1
                                           ELSE (old_location.col + 1) % 2^ColBits)
                  peeked       == SomeChar(c, Span(old_location, new_location))
              IN  IF c # "\n" /\ old_location.col + 1 >= 2^ColBits /\ overflow_checks
                  THEN Panicked(m)
                  ELSE Returned([peeked_char     |-> peeked,
                                 stream_location |-> new_location,
                                 rest_of_stream  |-> Tail(chars)],
                                peeked)

\* Muncher::peek_2nd_char: the first char of what is left behind the peeked
\* one, a `\r` included
peek_2nd_char_of(m, overflow_checks) ==
    LET r == peek_char_of(m, overflow_checks) IN
    IF r.panic THEN r
    ELSE Returned(r.muncher,
                  IF r.muncher.rest_of_stream = << >> THEN NoChar
                  ELSE [tag |-> "Some", c |-> Head(r.muncher.rest_of_stream)])

\* Muncher::next_char
next_char_of(m, overflow_checks) ==
    IF m.peeked_char # NoChar
    THEN Returned([m EXCEPT !.peeked_char = NoChar], m.peeked_char)
    ELSE LET r == peek_char_of(m, overflow_checks) IN
         IF r.panic THEN r
         ELSE Returned([r.muncher EXCEPT !.peeked_char = NoChar],
                       r.muncher.peeked_char)

\* Muncher::current_location
current_location(m) ==
    IF m.peeked_char # NoChar THEN m.peeked_char.span.start
    ELSE m.stream_location

\* Muncher::new
Muncher_new(text) ==
    [peeked_char |-> NoChar, stream_location |-> Location_start,
     rest_of_stream |-> text]

\* a first line that is about to fill the u16 of the column
LongLine == 2^ColBits - 3

\* the Muncher made of `before` chars "a" followed by the text, after
\* `before` calls of next_char: it stands in line 1 behind those chars
Muncher_after(before, text) ==
    [peeked_char |-> NoChar,
     stream_location |-> Location(before, 1, before + 1),
     rest_of_stream |-> text]

\* a user peeks at the next char
Muncher_peek_char ==
    /\ mpc = "munch"
    /\ Len(peeks) < MaxPeeks
    /\ LET r == peek_char_of(muncher, minput.overflow_checks) IN
       IF r.panic
       THEN mpc' = "panic" /\ UNCHANGED << muncher, peeks >>
       ELSE /\ muncher' = r.muncher
            /\ peeks' = Append(peeks, [op |-> "peek_char", ret |-> r.ret])
            /\ UNCHANGED mpc
    /\ UNCHANGED << minput, munched, due, source, pos, lpc, lstack, lresult,
                    comments, cstart, gathervars, filevars, files,
                    custom_cmdlets, todo, pc, path, scope, stack, scopes, ui,
                    already_analyzed, used_dependencies, emitted, result,
                    calls, computed, first >>

\* a user peeks at the char behind the next one
Muncher_peek_2nd_char ==
    /\ mpc = "munch"
    /\ Len(peeks) < MaxPeeks
    /\ LET r == peek_2nd_char_of(muncher, minput.overflow_checks) IN
       IF r.panic
       THEN mpc' = "panic" /\ UNCHANGED << muncher, peeks >>
       ELSE /\ muncher' = r.muncher
            /\ peeks' = Append(peeks, [op |-> "peek_2nd_char", ret |-> r.ret])
            /\ UNCHANGED mpc
    /\ UNCHANGED << minput, munched, due, source, pos, lpc, lstack, lresult,
                    comments, cstart, gathervars, filevars, files,
                    custom_cmdlets, todo, pc, path, scope, stack, scopes, ui,
                    already_analyzed, used_dependencies, emitted, result,
                    calls, computed, first >>

\* a user takes the next char; None at the end of the text ends the run
Muncher_next_char ==
    /\ mpc = "munch"
    /\ LET r == next_char_of(muncher, minput.overflow_checks) IN
       IF r.panic
       THEN mpc' = "panic" /\ UNCHANGED << muncher, munched, peeks, due >>
       ELSE /\ muncher' = r.muncher
            /\ munched' = Append(munched,
                            [ret |-> r.ret, due |-> due,
                             peeked |-> peeks # << >>,
                             same |-> \A i \in DOMAIN peeks :
                                        peeks[i].op = "peek_char"
                                            => peeks[i].ret = r.ret])
            /\ peeks' = << >>
            /\ due' = next_char_of(r.muncher, minput.overflow_checks)
            /\ mpc' = IF r.ret = NoChar THEN "end" ELSE "munch"
    /\ UNCHANGED << minput, source, pos, lpc, lstack, lresult,
                    comments, cstart, gathervars, filevars, files,
                    custom_cmdlets, todo, pc, path, scope, stack, scopes, ui,
                    already_analyzed, used_dependencies, emitted, result,
                    calls, computed, first >>

\* SpecMunch: a Muncher over every text of at most MaxMunch chars, at its
\* start or behind LongLine chars of the first line, in a build with and in
\* one without overflow checks
InitMunch ==
    /\ \E text \in Texts(MunchChars, MaxMunch), before \in {0, LongLine},
          overflow_checks \in BOOLEAN :
            /\ minput = [text |-> text, before |-> before,
                         overflow_checks |-> overflow_checks]
            /\ muncher = IF before = 0 THEN Muncher_new(text)
                         ELSE Muncher_after(before, text)
            /\ due = next_char_of(muncher, overflow_checks)
    /\ munched = << >>
    /\ peeks = << >>
    /\ mpc = "munch"
    /\ source = << >>
    /\ pos = 0
    /\ lpc = "idle"
    /\ lstack = << >>
    /\ lresult = Unparsed
    /\ comments = << >>
    /\ cstart = 0
    /\ stream = << >>
    /\ iter = 1
    /\ is_function_definition = FALSE
    /\ definitions = << >>
    /\ usages = << >>
    /\ tts2 = Unparsed
    /\ streams = << >>
    /\ syntax_file = NoFile
    /\ output = NoOutput
    /\ AnalysisIdle

NextMunch == Muncher_peek_char \/ Muncher_peek_2nd_char \/ Muncher_next_char

SpecMunch == InitMunch /\ [][NextMunch]_vars


\* ------------------------------------------------------ peeking and taking
\* the build the Muncher runs in
OverflowChecks == minput.overflow_checks

\* C35: peek_char does not consume.  Every char next_char has returned,
\* after no, one or several peeks, is with its span the one that next_char
\* would have returned right after the char before it, when nothing was
\* peeked; every peek_char before it returned that very char; and in every
\* state current_location is the start of the span that the next call of
\* next_char returns, whether peeked_char is filled or not.
C35_PeekDoesNotConsume ==
    mpc \in {"munch", "end", "panic"} =>
        /\ \A k \in DOMAIN munched :
                /\ ~munched[k].due.panic
                /\ munched[k].ret = munched[k].due.ret
                /\ munched[k].same
        /\ LET following == next_char_of(muncher, OverflowChecks) IN
           (~following.panic /\ following.ret # NoChar)
                => current_location(muncher) = following.ret.span.start

\* C35 witness: a char was taken after peeks, another one without, and the
\* next char has been peeked at twice
C35_Witness ==
    /\ mpc = "munch"
    /\ \E k \in DOMAIN munched : munched[k].peeked /\ munched[k].ret # NoChar
    /\ \E k \in DOMAIN munched : ~munched[k].peeked /\ munched[k].ret # NoChar
    /\ Len(peeks) = 2
    /\ muncher.peeked_char # NoChar
    /\ current_location(muncher) # muncher.stream_location


\* ------------------------------------------------------- spans and lines
\* the chars next_char has returned
Taken == { k \in DOMAIN munched : munched[k].ret # NoChar }

\* where the chars that are returned stand in the text: a `\r` is not
RECURSIVE CharsReturned(_)
CharsReturned(i) ==
    IF i > Len(minput.text) THEN << >>
    ELSE (IF minput.text[i] = "\r" THEN << >> ELSE << i >>) \o CharsReturned(i + 1)

\* the k-th char returned stands there in the text
At(k) == CharsReturned(1)[k]

\* the k-th char returned is the `\n` of a `\r\n` pair
EndsPair(k) == At(k) > 1 /\ minput.text[At(k)] = "\n" /\ minput.text[At(k) - 1] = "\r"

Width(span) == span.end.byte - span.start.byte

\* the spans follow one another, the first one from where the Muncher
\* started, and the char behind a `\n` stands in the next line at column 1
Contiguous ==
    \A k \in Taken :
        /\ munched[k].ret.span.start.byte =
                IF k = 1 THEN minput.before ELSE munched[k - 1].ret.span.end.byte
        /\ (k > 1 /\ munched[k - 1].ret.c = "\n") =>
                /\ munched[k].ret.span.start.line =
                        munched[k - 1].ret.span.start.line + 1
                /\ munched[k].ret.span.start.col = 1

\* C36: every `\r\n` pair of the text is returned as one `\n` whose span is
\* two bytes wide, the char returned after it starts in the next line at
\* column 1, and the span of every returned char starts at the byte where
\* the span of the char returned before it ended.
C36_PairIsOneNewlineTwoBytesWide ==
    mpc \in {"munch", "end", "panic"} =>
        /\ \A k \in Taken :
                /\ munched[k].ret.c = minput.text[At(k)]
                /\ EndsPair(k) => Width(munched[k].ret.span) = 2
        /\ Contiguous

\* C36, what does hold: the span of the `\n` of a pair is two bytes wide
\* when no other `\r` stands right before the pair, and it takes in every
\* `\r` that does; the spans are contiguous and the lines advance.
C36_PairAndCarriageReturnsBeforeIt ==
    mpc \in {"munch", "end", "panic"} =>
        /\ \A k \in Taken :
                /\ munched[k].ret.c = minput.text[At(k)]
                /\ ( /\ EndsPair(k)
                     /\ (At(k) > 2 => minput.text[At(k) - 2] # "\r") )
                        => Width(munched[k].ret.span) = 2
        /\ Contiguous

\* C36, reached: a `\r\n` pair returned as a `\n` two bytes wide, and the
\* char behind it returned in the next line at column 1
C36_WitnessPair ==
    \E k \in Taken :
        /\ EndsPair(k) /\ Width(munched[k].ret.span) = 2
        /\ k + 1 \in Taken
        /\ munched[k + 1].ret.span.start.col = 1

\* C36, reached: the text \r\r\n, returned as one `\n` three bytes wide
C36_WitnessThreeBytes ==
    /\ minput.text = << "\r", "\r", "\n" >>
    /\ \E k \in Taken : EndsPair(k) /\ Width(munched[k].ret.span) = 3


\* ---------------------------------------------------- byte, line, column
\* the bytes of the text before its i-th char
RECURSIVE BytesBefore(_)
BytesBefore(i) == IF i <= 1 THEN 0 ELSE BytesBefore(i - 1) + len_utf8(minput.text[i - 1])

\* the UTF-8 code units of the chars i..j of the text
RECURSIVE UnitsOf(_, _)
UnitsOf(i, j) == IF i > j THEN 0 ELSE len_utf8(minput.text[i]) + UnitsOf(i + 1, j)

\* the chars i..j of the text that are returned: every one but a `\r`
RECURSIVE ReturnedOf(_, _)
ReturnedOf(i, j) ==
    IF i > j THEN 0
    ELSE (IF minput.text[i] = "\r" THEN 0 ELSE 1) + ReturnedOf(i + 1, j)

\* the newlines among the chars 1..j of the text
RECURSIVE NewlinesOf(_)
NewlinesOf(j) ==
    IF j < 1 THEN 0
    ELSE (IF minput.text[j] = "\n" THEN 1 ELSE 0) + NewlinesOf(j - 1)

\* the text consumed before the k-th returned char ends with its char
\* number Consumed(k): the char returned before it, or nothing
Consumed(k) == IF k = 1 THEN 0 ELSE At(k - 1)

\* the first char of the line in which the consumed text ends
RECURSIVE LineStart(_)
LineStart(j) ==
    IF j < 1 THEN 1
    ELSE IF minput.text[j] = "\n" THEN j + 1 ELSE LineStart(j - 1)

\* the chars "a" munched before the text stand in line 1 of it
OnFirstLine(k) == NewlinesOf(Consumed(k)) = 0

\* C37: the start of the span of every returned char has as its byte the
\* number of bytes of the source before it, as its line 1 plus the number
\* of newlines consumed before it, and as its column 1 plus the number of
\* code units consumed since the start of that line.
C37_StartLocationCountsBytesLinesUnits ==
    mpc \in {"munch", "end", "panic"} =>
        \A k \in Taken :
            LET start == munched[k].ret.span.start IN
            /\ start.byte = minput.before + BytesBefore(Consumed(k) + 1)
            /\ start.line = 1 + NewlinesOf(Consumed(k))
            /\ start.col = 1 + UnitsOf(LineStart(Consumed(k)), Consumed(k))
                             + (IF OnFirstLine(k) THEN minput.before ELSE 0)

\* C37, what does hold while the column fits its u16: the byte is the end
\* of what was consumed, the line counts the newlines, and the column
\* counts the chars returned since the start of the line, one for a char of
\* two bytes and none for a `\r`.
C37_ColumnCountsReturnedChars ==
    mpc \in {"munch", "end", "panic"} =>
        \A k \in Taken :
            LET start == munched[k].ret.span.start
                chars == ReturnedOf(LineStart(Consumed(k)), Consumed(k))
                            + (IF OnFirstLine(k) THEN minput.before ELSE 0)
            IN
            /\ start.byte = minput.before + BytesBefore(Consumed(k) + 1)
            /\ start.line = 1 + NewlinesOf(Consumed(k))
            /\ start.col = (1 + chars) % 2^ColBits

\* C37, reached: the column of a u16 has wrapped to 0 in a build without
\* overflow checks, behind 65535 chars of one line
C37_WitnessWrapped ==
    \E k \in Taken :
        /\ munched[k].ret.span.start.col = 0
        /\ minput.before = LongLine
        /\ ~OverflowChecks

\* C37, reached: the same line makes a build with overflow checks panic
C37_WitnessPanicked ==
    /\ mpc = "panic" /\ OverflowChecks
    /\ Len(munched) = 1 /\ munched[1].ret.span.end.col = 2^ColBits - 1

\* C37, reached: a char returned behind a char of two bytes, at column 2
C37_WitnessWideChar ==
    \E k \in Taken :
        /\ k > 1 /\ munched[k - 1].ret.c = Wide
        /\ munched[k].ret.span.start = Location(2, 1, 2)


\* ------------------------------------------------------------- spacing
\* in a stream, and in every stream nested in it, a Word or Symbol is
\* Joined if its span ends where the span of the next token of the stream
\* starts, and Alone if not, or if it is the last one
RECURSIVE SpacedBySpans(_)
SpacedBySpans(tts) ==
    \A i \in DOMAIN tts :
        /\ tts[i].type \in {"Word", "Symbol"} =>
                tts[i].spacing =
                    IF i < Len(tts) /\ tts[i].end = tts[i + 1].start
                    THEN "Joined" ELSE "Alone"
        /\ SpacedBySpans(tts[i].interior)
        /\ SpacedBySpans(tts[i].subtrees)

\* C38: after a parse that returned Ok, in the top-level stream, in the
\* interior of every group and among the subtrees of every string, a Word
\* or Symbol is Joined exactly when its span ends where the next token of
\* its stream starts and Alone otherwise; the last token of a stream is
\* Alone.
C38_JoinedIffNextTokenAdjacent ==
    (ParseReturned /\ lresult.kind = "Ok") => SpacedBySpans(lresult.tts)

\* C38 witness: a stream with a Joined token, and with an Alone token that
\* is not the last one, the next token standing further right
C38_Witness ==
    /\ ParseReturned /\ lresult.kind = "Ok"
    /\ \E i \in DOMAIN lresult.tts :
            /\ lresult.tts[i].type \in {"Word", "Symbol"}
            /\ lresult.tts[i].spacing = "Joined"
    /\ \E i \in DOMAIN lresult.tts :
            /\ lresult.tts[i].type \in {"Word", "Symbol"}
            /\ lresult.tts[i].spacing = "Alone"
            /\ i < Len(lresult.tts)
            /\ lresult.tts[i].end < lresult.tts[i + 1].start

\* C38, reached: the interior of a group with a Joined token and a last
\* token that ends where the closing delimiter stands and is Alone
C38_WitnessGroup ==
    /\ ParseReturned /\ lresult.kind = "Ok"
    /\ \E i \in DOMAIN lresult.tts :
        LET inner == lresult.tts[i].interior IN
        /\ Len(inner) = 2
        /\ inner[1].spacing = "Joined"
        /\ inner[2].type \in {"Word", "Symbol"}
        /\ inner[2].spacing = "Alone"
        /\ inner[2].end + 1 = lresult.tts[i].end


\* ====================================================================
\* Stage 2 over lines
\* ====================================================================
\* what the texts of SpecLines are made of: words, blanks, newlines, the
\* grave accent, the symbols that take in a newline, blocks and @{}-blocks
LineChars == { "a", " ", "\n", Backtick, "|", "+", "{", "}", "@" }

\* SpecLines: v2::parse of every text of at most MaxLine of these chars
InitLines ==
    /\ source \in Texts(LineChars, MaxLine)
    /\ pos = 0
    /\ lpc = "parse_tt"
    /\ lstack = << CallFrame("top", 0) >>
    /\ lresult = Unparsed
    /\ comments = << >>
    /\ cstart = 0
    /\ GatherIdle
    /\ AnalysisIdle

NextLines == parse_tt \/ parse_group \/ Parser_parse \/ Stage2

SpecLines == InitLines /\ [][NextLines]_vars


\* ------------------------------------------------------ line continuation
\* both stages have returned and the Stage-1 stream is there
Stage2Returned == lpc = "v2" /\ lresult.kind = "Ok"

\* the i-th tree of a Stage-1 stream is a grave accent Joined to the tree
\* behind it
JoinedBacktick(inp, i) ==
    /\ inp[i].type = "Symbol" /\ inp[i].symbol = Backtick
    /\ inp[i].spacing = "Joined"

IsNewline(tt) == tt.type = "Symbol" /\ tt.symbol = "\n"

\* a tree of the Stage-2 stream takes in the span of the Stage-1 tree
Covers(out, tt) == \E j \in DOMAIN out : out[j].start <= tt.start /\ tt.end <= out[j].end

\* a tree of the Stage-2 stream starts where the Stage-1 tree does and is
\* of one of the types
StartsAs(out, tt, types) ==
    \E j \in DOMAIN out : out[j].start = tt.start /\ out[j].type \in types

\* the interior of the Stage-2 group that the Stage-1 group became
InteriorOf(out, group) ==
    LET j == CHOOSE j \in DOMAIN out : out[j].type = "Group" /\ out[j].end = group.end
    IN  out[j].interior

CommandTypes == { "Cmdlet", "FunctionKeyword", "ClassKeyword", "ReturnKeyword" }

\* in a stream that starts in mode Function, and in the streams of the
\* groups in it: a grave accent Joined to a newline left nothing of the two
\* in the Stage-2 stream; behind a command name the word of the next line
\* is still an argument, and at the start of the stream it is a command
RECURSIVE ContinuesLines(_, _, _)
ContinuesLines(inp, out, left_joined) ==
    \A i \in DOMAIN inp :
        /\ ( /\ JoinedBacktick(inp, i)
             /\ IsNewline(inp[i + 1])
             /\ left_joined \/ i = 1 \/ inp[i - 1].spacing = "Alone" )
           => /\ ~Covers(out, inp[i])
              /\ ~Covers(out, inp[i + 1])
              /\ ( /\ i = 2 /\ inp[1].type = "Word" /\ Len(inp) >= 4
                   /\ StartsAs(out, inp[1], {"Cmdlet"})
                   /\ inp[4].type = "Word" )
                 => StartsAs(out, inp[4], {"Word", "InKeyword"})
              /\ ( /\ i = 1 /\ Len(inp) >= 3 /\ inp[3].type = "Word"
                   /\ StartsAs(out, inp[3], CommandTypes \cup {"Field"}) )
                 => out[1].start = inp[3].start
        /\ inp[i].type = "Group"
           => ContinuesLines(inp[i].interior, InteriorOf(out, inp[i]), left_joined)

\* the grave accents Joined to a tree that is no newline, in a stream and
\* in the groups in it
RECURSIVE UnknownEscapes(_, _)
UnknownEscapes(inp, left_joined) ==
    UNION { ( IF /\ JoinedBacktick(inp, i)
                 /\ ~IsNewline(inp[i + 1])
                 /\ left_joined \/ i = 1 \/ inp[i - 1].spacing = "Alone"
              THEN { inp[i].start } ELSE {} )
            \cup ( IF inp[i].type = "Group"
                   THEN UnknownEscapes(inp[i].interior, left_joined) ELSE {} )
            : i \in DOMAIN inp }

\* C39 as stated: when both stages have returned, every grave accent Joined
\* to a newline is dropped with the newline, without a separator and
\* without a change of mode, and a grave accent Joined to anything else
\* makes Stage 2 fail with a syntax error at a grave accent.
C39_BacktickNewlineContinuesLine ==
    Stage2Returned =>
        /\ tts2.kind = "Ok" => ContinuesLines(lresult.tts, tts2.tts, TRUE)
        /\ UnknownEscapes(lresult.tts, TRUE) # {} =>
                /\ tts2.kind = "Err"
                /\ tts2.what = "Unknown escape"
                /\ tts2.where \in UnknownEscapes(lresult.tts, TRUE)

\* C39, what does hold: the same for the grave accents that the tree to
\* their left is not Joined to.
C39_SpacedBacktickNewlineContinuesLine ==
    Stage2Returned =>
        /\ tts2.kind = "Ok" => ContinuesLines(lresult.tts, tts2.tts, FALSE)
        /\ UnknownEscapes(lresult.tts, FALSE) # {} =>
                /\ tts2.kind = "Err"
                /\ tts2.what = "Unknown escape"
                /\ tts2.where \in UnknownEscapes(lresult.tts, FALSE)
        /\ (tts2.kind = "Err" /\ lresult.kind = "Ok") =>
                tts2.where \in UnknownEscapes(lresult.tts, TRUE)

\* C39, reached: a command, an argument with a grave accent right behind
\* it, a newline: the argument takes the grave accent in and the newline
\* becomes a separator
C39_WitnessGluedToArgument ==
    /\ Stage2Returned /\ tts2.kind = "Ok"
    /\ source = << "a", " ", "a", Backtick, "\n" >>
    /\ Len(tts2.tts) = 3
    /\ tts2.tts[2].type = "Word" /\ tts2.tts[2].end = 4
    /\ tts2.tts[3].symbol = ";"

\* C39, reached: a command, a spaced grave accent and newline, an argument
\* on the next line: two trees, a Cmdlet and a Word
C39_WitnessContinued ==
    /\ Stage2Returned /\ tts2.kind = "Ok"
    /\ source = << "a", " ", Backtick, "\n", "a" >>
    /\ Len(tts2.tts) = 2
    /\ tts2.tts[1].type = "Cmdlet" /\ tts2.tts[2].type = "Word"

\* C39, reached: an argument with a grave accent inside is no error
C39_WitnessEscapeInArgument ==
    /\ Stage2Returned /\ tts2.kind = "Ok"
    /\ source = << "a", " ", "a", Backtick, "a" >>

\* C39, reached: a grave accent Joined to a word at the start of a block is
\* an error at the grave accent
C39_WitnessUnknownEscape ==
    /\ Stage2Returned /\ tts2.kind = "Err"
    /\ tts2.what = "Unknown escape"
    /\ source = << "{", Backtick, "a", "}" >>
    /\ tts2.where = 1


\* ------------------------------------------------- statement separators
\* the newline at place i of a Stage-1 stream may have been taken in by
\* the tree to its left: a grave accent Joined to it, a `|` or a `+`
MayBeAbsorbed(inp, i) ==
    /\ i > 1
    /\ \/ JoinedBacktick(inp, i - 1)
       \/ inp[i - 1].type = "Symbol" /\ inp[i - 1].symbol \in { "|", "+" }

\* the mode in which the interior of a group of the Stage-2 stream starts:
\* Field in an @{}-block, Function in the other blocks of these texts
StartMode(group) == IF group.prefix = "@" THEN "Field" ELSE "Function"

\* what a word becomes in a mode: a command or keyword in mode Function,
\* a Field in mode Field
FirstWordTypes(mode) == IF mode = "Field" THEN {"Field"} ELSE CommandTypes

\* a stream between braces or at the top level, its Stage-2 stream and the
\* mode it started in: every newline that no tree to its left can have
\* taken in is a `;` of the Stage-2 stream with the span of the newline, a
\* word right behind it is what a first word of the stream would be, and
\* so on in the groups of the stream.  Between other delimiters no `;` is
\* asked for.
RECURSIVE SeparatesStatements(_, _, _, _)
SeparatesStatements(inp, out, delimiter, start_mode) ==
    \A i \in DOMAIN inp :
        /\ (delimiter = "Brace" /\ IsNewline(inp[i]) /\ ~MayBeAbsorbed(inp, i))
           => /\ \E j \in DOMAIN out :
                    /\ out[j].type = "Symbol" /\ out[j].symbol = ";"
                    /\ out[j].start = inp[i].start /\ out[j].end = inp[i].end
              /\ (i < Len(inp) /\ inp[i + 1].type = "Word")
                    => StartsAs(out, inp[i + 1], FirstWordTypes(start_mode))
        /\ inp[i].type = "Group"
           => LET j == CHOOSE j \in DOMAIN out :
                            out[j].type = "Group" /\ out[j].end = inp[i].end
              IN  SeparatesStatements(inp[i].interior, out[j].interior,
                                      inp[i].delimiter, StartMode(out[j]))

\* C40: when Stage 2 has returned a stream, every newline of the top level
\* and of every brace-delimited block that is not taken in by a line
\* continuation or by a `|` or `+` before it is a `;` symbol of the Stage-2
\* stream, and the word that follows it is classified as a first word of
\* the block is: in the mode the block started in.
C40_NewlineSeparatesStatements ==
    (Stage2Returned /\ tts2.kind = "Ok") =>
        SeparatesStatements(lresult.tts, tts2.tts, "Brace", "Function")

\* C40 witness: a command with an argument, a newline, a word: the word of
\* the second line is a command again, behind a `;`
C40_Witness ==
    /\ Stage2Returned /\ tts2.kind = "Ok"
    /\ source = << "a", " ", "a", "\n", "a" >>
    /\ Len(tts2.tts) = 4
    /\ tts2.tts[2].type = "Word"
    /\ tts2.tts[3].symbol = ";"
    /\ tts2.tts[4].type = "Cmdlet"

\* C40, reached: in an @{}-block the word behind the newline is a Field, as
\* the first word of the block is
C40_WitnessFieldBlock ==
    /\ Stage2Returned /\ tts2.kind = "Ok"
    /\ source = << "@", "{", "\n", "a", "}" >>
    /\ Len(tts2.tts) = 1
    /\ tts2.tts[1].prefix = "@"
    /\ tts2.tts[1].interior[1].symbol = ";"
    /\ tts2.tts[1].interior[2].type = "Field"

\* C40, reached: a newline behind a `|` is taken in, no `;` is emitted
C40_WitnessAbsorbed ==
    /\ Stage2Returned /\ tts2.kind = "Ok"
    /\ source = << "a", "|", "\n", "a" >>
    /\ \A j \in DOMAIN tts2.tts : tts2.tts[j].symbol # ";"

====
